---------------------------- MODULE Spec2Model ----------------------------
(***************************************************************************)
(* A model of the cleaning-rule execution engine of the curation pipeline  *)
(* (data_steward/cdr_cleaner/clean_cdr_engine.py): the parameter resolver  *)
(* get_custom_kwargs, the rule adapter infer_rule, the job configuration   *)
(* generate_job_config, the query job runner run_queries and the pipeline  *)
(* driver clean_dataset.                                                   *)
(*                                                                         *)
(* Python dicts are functions over a set of string keys, lists are         *)
(* sequences, None is the value PyNone.  A call that raises is a record    *)
(* with field raised /= "None".  BigQuery job handles are references: the  *)
(* program's lists hold job ids, the jobs' state lives in bq_jobs.         *)
(***************************************************************************)
EXTENDS Integers, Sequences, FiniteSets, TLC

VARIABLES
    \* ---- one clean_dataset call
    pc,          \* position of the driver in clean_dataset / run_queries
    n_rules,     \* len(rules)
    run_as,      \* the service account to impersonate, None for none
    kwargs,      \* the caller's **kwargs of clean_dataset
    client,      \* the BigQueryClient of the run: [created, project, credentials]
    rule_index,  \* enumerate(rules) index of the rule being processed, from 0
    closure,     \* what infer_rule returned: query_function / setup_function
    rule_info,   \* the rule_info dict of the rule being processed
    query_list,  \* query_function()'s result
    query_no,    \* enumerate(query_list) index in run_queries, from 0
    jobs,        \* run_queries' local list of job handles
    all_jobs,    \* clean_dataset's list of job handles
    cur_job,     \* query_job of the running iteration of run_queries
    exc,         \* the exception that left clean_dataset ([type |-> "None"]: none)
    bq_jobs,     \* the warehouse's jobs, by job id (the handles' referents)
    log,         \* the records LOGGER received, in order
    trace,       \* the calls made on the rules and on the client, in order
    \* ---- one get_custom_kwargs call
    r_pc, r_clazz, r_kwargs, r_result,
    \* ---- one infer_rule call and the calls of the closures it returned
    a_pc,        \* "call", then "adapted" or "raised"
    a_clazz,     \* the candidate rule
    a_kwargs,    \* the options handed to infer_rule
    a_result,    \* what infer_rule returned or raised
    a_trace,     \* the calls of the closures and those they made, in order
    \* ---- two clean_dataset runs of one rule each against the same client
    pair_pc,     \* the number of runs made
    pair_input,  \* the two rules, the query list and the client's behaviour
    pair_runs,   \* what each run submitted and how it ended
    \* ---- one generate_job_config call and the submission of its result
    c_pc,        \* "call", then "built" and "submitted", or "raised"
    c_query_dict, \* the query dict
    c_result,    \* what generate_job_config returned or raised
    c_job,       \* the job client.query started with the configuration
    \* ---- get_query_list calls on one list of rules, and a clean_dataset
    \* ---- call on the same list
    l_pc,        \* where the get_query_list call under way is
    rules,       \* the rules, with what their query functions return
    l_kwargs,    \* the **kwargs of the calls
    l_index,     \* the number of rules the loop is done with
    l_closure,   \* query_function of the rule at hand
    all_queries_list, \* get_query_list's list of query dicts
    returned_lists,   \* what the calls made so far returned, in order
    l_exc,       \* the exception the call left with
    l_trace,     \* ghost: the calls the call under way made on the rules
    l_run,       \* how the clean_dataset call on the same list ended
    \* ---- clean_dataset on the one rule QRIDtoRID
    q_pc,        \* "call", then "raised", or "setup", "produce", "queries", "done"
    q_kwargs,    \* the **kwargs of the clean_dataset call
    q_result,    \* what infer_rule returned or raised
    q_trace,     \* the calls made on the rule, with the client calls each made
    q_query_list, \* what the rule's get_query_specs returned
    q_run,       \* how run_queries ended
    \* ---- threads calling bucket() and bucket_updated() on one HPOBucket
    b_lock,      \* self._lock, an RLock: the thread that owns it and how many times
    b_bucket,    \* self._bucket: 0 for None, else the number of the fetch it came from
    b_updated,   \* self._bucket_updated: 0 for None, else the clock when it was set
    b_clock,     \* datetime.datetime.now()
    b_contacts,  \* the get_bucket calls made on the storage client
    b_calls,     \* the bucket() and bucket_updated() calls started
    b_threads,   \* each thread: where it is in its call, its locals, its last call
    \* ---- create_id_match_tables (snapshot_validation_dataset.py)
    s_pc,        \* where create_id_match_tables is
    partitions_df, \* the rows the partitions query returned
    hpo_info,    \* the HPO sites of get_hpo_info(), in its order
    s_index,     \* position of the for loop in hpo_info
    partition_date, \* partition_date of the site being processed
    s_exc,       \* what create_id_match_tables raised
    s_trace,     \* the calls made on the client, and the sites skipped, in order
    \* ---- list_bucket (gcs_utils.py)
    g_pc,        \* where list_bucket is
    listing,     \* the result pages of the bucket listing: the items of each page
    req,         \* the request held by list_bucket: the page it asks for, 0 for None
    resp,        \* the response of the last executed request
    all_objects, \* all_objects of list_bucket
    g_result,    \* what list_bucket returned or raised
    g_trace      \* the calls made on the service, in order

vars == <<pc, n_rules, run_as, kwargs, client, rule_index, closure, rule_info,
          query_list, query_no, jobs, all_jobs, cur_job, exc, bq_jobs, log,
          trace, r_pc, r_clazz, r_kwargs, r_result,
          a_pc, a_clazz, a_kwargs, a_result, a_trace,
          pair_pc, pair_input, pair_runs,
          c_pc, c_query_dict, c_result, c_job,
          l_pc, rules, l_kwargs, l_index, l_closure, all_queries_list,
          returned_lists, l_exc, l_trace, l_run,
          q_pc, q_kwargs, q_result, q_trace, q_query_list, q_run,
          b_lock, b_bucket, b_updated, b_clock, b_contacts, b_calls, b_threads,
          s_pc, partitions_df, hpo_info, s_index, partition_date, s_exc, s_trace,
          g_pc, listing, req, resp, all_objects, g_result, g_trace>>

pipeline_vars == <<pc, n_rules, run_as, kwargs, client, rule_index, closure, rule_info,
                   query_list, query_no, jobs, all_jobs, cur_job, exc, bq_jobs,
                   log, trace>>

resolver_vars == <<r_pc, r_clazz, r_kwargs, r_result>>

adapter_vars == <<a_pc, a_clazz, a_kwargs, a_result, a_trace>>

pair_vars == <<pair_pc, pair_input, pair_runs>>

config_vars == <<c_pc, c_query_dict, c_result, c_job>>

list_vars == <<l_pc, rules, l_kwargs, l_index, l_closure, all_queries_list,
               returned_lists, l_exc, l_trace, l_run>>

qrid_vars == <<q_pc, q_kwargs, q_result, q_trace, q_query_list, q_run>>

bucket_vars == <<b_lock, b_bucket, b_updated, b_clock, b_contacts, b_calls, b_threads>>

snapshot_vars == <<s_pc, partitions_df, hpo_info, s_index, partition_date, s_exc, s_trace>>

listing_vars == <<g_pc, listing, req, resp, all_objects, g_result, g_trace>>

----------------------------------------------------------------------------
(* Bounds *)

\* the longest rule list handed to clean_dataset
MaxRules == 2
\* the most queries the rules of one run produce between them
MaxQueries == 3
\* the most parameters a rule declares after the three dataset parameters
MaxParams == 2
\* the most options a caller supplies
MaxOptions == 2

----------------------------------------------------------------------------
(* Python values *)

PyNone == "<None>"

\* True and False where a value may also be None
PyTrue == "True"
PyFalse == "False"

NoException == [type |-> "None"]

\* str(v) as an f-string formats it
Format(v) == IF v = PyNone THEN "None" ELSE v

\* dict d restricted to the keys in ks
Restrict(d, ks) == [k \in (DOMAIN d) \cap ks |-> d[k]]

\* {**a, **b} for dicts with disjoint keys
Merge(a, b) == [k \in (DOMAIN a) \cup (DOMAIN b) |->
                   IF k \in DOMAIN a THEN a[k] ELSE b[k]]

\* d.get(k, default)
Get(d, k, default) == IF k \in DOMAIN d THEN d[k] ELSE default

Range(s) == {s[i] : i \in 1..Len(s)}

\* the sequences over S of length at most n
SeqUpTo(S, n) == UNION {[1..m -> S] : m \in 0..n}

----------------------------------------------------------------------------
(* Rule signatures: inspect.signature(clazz).parameters *)

\* a declared parameter: its name, whether it has a default, and its kind
\* ("named": positional-or-keyword, "var_positional": *args,
\*  "var_keyword": **kwargs)
Param(name, has_default, kind) ==
    [name |-> name, has_default |-> has_default, kind |-> kind]

\* every rule is called with (project_id, dataset_id, sandbox_dataset_id, ...)
DatasetParams ==
    << Param("project_id", FALSE, "named"),
       Param("dataset_id", FALSE, "named"),
       Param("sandbox_dataset_id", FALSE, "named") >>

\* the parameters a rule may declare after those three
RuleParams ==
    { Param(n, d, "named") :
        n \in {"table_namer", "cutoff_date", "mapping_dataset"}, d \in BOOLEAN }
    \cup { Param("args", FALSE, "var_positional"),
           Param("kwargs", FALSE, "var_keyword") }

\* what Python accepts as a parameter list: distinct names, no parameter
\* without a default after one with a default, *args after the named
\* parameters, **kwargs last
ValidParams(t) ==
    /\ \A i, j \in 1..Len(t) : i < j =>
          /\ t[i].name /= t[j].name
          /\ t[i].kind /= "var_keyword"
          /\ t[i].kind = "var_positional" => t[j].kind = "var_keyword"
          /\ (t[i].kind = "named" /\ t[i].has_default /\ t[j].kind = "named")
                => t[j].has_default

Signatures ==
    { DatasetParams \o t : t \in {u \in SeqUpTo(RuleParams, MaxParams) : ValidParams(u)} }

\* the options a caller may supply
OptionNames == {"cutoff_date", "mapping_dataset", "extra", "kwargs", "dataset_id"}
OptionValues == {"2022-01-01", ""}
Options ==
    UNION { [ks -> OptionValues] :
              ks \in {x \in SUBSET OptionNames : Cardinality(x) <= MaxOptions} }

\* the names the engine passes itself (constants.cdr_cleaner.clean_cdr_engine)
CLEAN_ENGINE_REQUIRED_PARAMS ==
    {"project_id", "dataset_id", "sandbox_dataset_id", "table_namer"}

\* get_rule_args: [dict(name=..., required=param.default is empty)]
get_rule_args(sig) ==
    [i \in 1..Len(sig) |-> [name |-> sig[i].name, required |-> ~sig[i].has_default]]

\* rule_params: params.items() without the engine's names, order kept
RECURSIVE rule_params(_)
rule_params(sig) ==
    IF sig = <<>> THEN <<>>
    ELSE IF Head(sig).name \notin CLEAN_ENGINE_REQUIRED_PARAMS
         THEN <<Head(sig)>> \o rule_params(Tail(sig))
         ELSE rule_params(Tail(sig))

\* only the first absent parameter is named
missing_params_first(rps, kw) ==
    LET absent == {i \in 1..Len(rps) : rps[i].name \notin DOMAIN kw /\ ~rps[i].has_default}
    IN  IF absent = {} THEN <<>>
        ELSE <<rps[CHOOSE i \in absent : \A j \in absent : i <= j].name>>

\* *args and **kwargs are not counted among the missing parameters
RECURSIVE missing_params_named(_, _)
missing_params_named(rps, kw) ==
    IF rps = <<>> THEN <<>>
    ELSE IF /\ Head(rps).name \notin DOMAIN kw
            /\ ~Head(rps).has_default
            /\ Head(rps).kind = "named"
         THEN <<Head(rps).name>> \o missing_params_named(Tail(rps), kw)
         ELSE missing_params_named(Tail(rps), kw)

\* missing: the names of rps absent from kw and without a default, order kept
RECURSIVE missing_params(_, _)
missing_params(rps, kw) ==
    IF rps = <<>> THEN <<>>
    ELSE IF Head(rps).name \notin DOMAIN kw /\ ~Head(rps).has_default
         THEN <<Head(rps).name>> \o missing_params(Tail(rps), kw)
         ELSE missing_params(Tail(rps), kw)

\* the supplied options are handed on as they came
get_custom_kwargs_unfiltered(sig, kw) ==
    LET missing == missing_params(rule_params(sig), kw)
    IN  IF missing /= <<>>
        THEN [raised |-> "ValueError", missing |-> missing, kwargs |-> <<>>]
        ELSE [raised |-> "None", missing |-> <<>>, kwargs |-> kw]

\* the filtered kwargs are returned whether or not a parameter is missing
get_custom_kwargs_unchecked(sig, kw) ==
    [raised |-> "None", missing |-> <<>>,
     kwargs |-> Restrict(kw, {p.name : p \in Range(rule_params(sig))})]

\* get_custom_kwargs(clazz, **kwargs): the filtered kwargs, or ValueError
get_custom_kwargs(sig, kw) ==
    LET rps      == rule_params(sig)
        filtered == Restrict(kw, {p.name : p \in Range(rps)})
        missing  == missing_params(rps, filtered)
    IN  IF missing /= <<>>
        THEN [raised |-> "ValueError", missing |-> missing, kwargs |-> <<>>]
        ELSE [raised |-> "None", missing |-> <<>>, kwargs |-> filtered]

----------------------------------------------------------------------------
(* Rules: what infer_rule reads of a clazz *)

\* a module name as inspect.getmodule(f).__name__ gives it: its dotted
\* components, each a tuple of characters
ModuleNames ==
    { << <<"d", "e", "i", "d">>,
         <<"g", "e", "o", "_", "s", "u", "p", "p", "r", "e", "s", "s">> >> }

\* inspect.getmodule returned None
NoModule == <<>>

\* a clazz: "class" is a subclass of BaseCleaningRule, "function" any other
\* callable, "object" what is not callable; init_raises is what the body of a class's __init__ raises once its
\* arguments are bound; has_source is whether inspect.getsourcelines finds
\* the source, which it is asked for only once the module is known
RuleSet ==
    { c \in [ shape : {"class", "function"},
              sig : Signatures,
              init_raises : {"None", "TypeError", "RuntimeError"},
              module : ModuleNames \cup {NoModule},
              has_source : BOOLEAN ] :
        /\ c.module = NoModule => ~c.has_source
        /\ c.shape = "function" => c.init_raises = "None" }

NamedParams(sig) == {i \in 1..Len(sig) : sig[i].kind = "named"}

\* the named parameters of a signature that are not the engine's, have no
\* default and are not among the option names ks: what a call has to supply
\* and does not
Lacking(sig, ks) ==
    {sig[i].name : i \in {j \in NamedParams(sig) :
                            /\ sig[j].name \notin CLEAN_ENGINE_REQUIRED_PARAMS
                            /\ ~sig[j].has_default
                            /\ sig[j].name \notin ks}}

\* Python's argument binding of clazz(*npos positional arguments, **kw):
\* TRUE when the call is accepted, FALSE when it is a TypeError
Binds(sig, npos, kw) ==
    LET named  == NamedParams(sig)
        filled == {i \in named : i <= npos}
    IN  /\ npos > Cardinality(named) => \E i \in 1..Len(sig) : sig[i].kind = "var_positional"
        /\ \A k \in kw :
              IF \E i \in named : sig[i].name = k
              THEN \A i \in filled : sig[i].name /= k
              ELSE \E i \in 1..Len(sig) : sig[i].kind = "var_keyword"
        /\ \A i \in named :
              sig[i].has_default \/ i \in filled \/ sig[i].name \in kw

\* clazz(...) for a class: the exception the call ends with, "None" if none
Instantiate(clazz, npos, kw) ==
    IF ~Binds(clazz.sig, npos, kw) THEN "TypeError" ELSE clazz.init_raises

\* a call made on a rule or on the client, as the trace records it
Event(op, raised) == [op |-> op, raised |-> raised]

Exception(type, origin, message) ==
    [type |-> type, origin |-> origin, message |-> message]

LogRecord(level, template, context) ==
    [level |-> level, template |-> template, context |-> context]

\* what cannot be determined is filled with a placeholder
rule_metadata_unknown(clazz, function_name) ==
    [raised |-> "None",
     info |-> [function_name |-> function_name,
               module_name |-> IF clazz.module = NoModule
                               THEN <<"unknown">> ELSE clazz.module,
               line_no |-> IF clazz.has_source THEN "line" ELSE "unknown"]]

\* the descriptive part of rule_info (function_name, module_name, line_no),
\* or the exception the reflection calls raise
rule_metadata(clazz, function_name) ==
    IF clazz.module = NoModule
    THEN [raised |-> "AttributeError", info |-> <<>>]
    ELSE IF ~clazz.has_source
    THEN [raised |-> "OSError", info |-> <<>>]
    ELSE [raised |-> "None",
          info |-> [function_name |-> function_name,
                    module_name |-> clazz.module,
                    line_no |-> "line"]]

\* infer_rule(clazz, project_id, dataset_id, sandbox_dataset_id, table_namer,
\* **kwargs): the closures and rule_info it returns or the exception it
\* raises, with the constructor calls it made and the records it logged
infer_rule(clazz, kw) ==
    LET custom == get_custom_kwargs(clazz.sig, kw)
        names  == DOMAIN custom.kwargs
        first  == Instantiate(clazz, 4, names)
        second == Instantiate(clazz, 3, names)
        failed(type, origin, events, logs) ==
            [raised |-> type, exc |-> Exception(type, origin, <<>>),
             events |-> events, logs |-> logs,
             closure |-> <<>>, rule_info |-> <<>>]
    IN  IF clazz.shape = "object"
        THEN \* inspect.signature(clazz) of line 174: clazz is not callable
             failed("TypeError", "signature", <<>>, <<>>)
        ELSE IF custom.raised /= "None"
        THEN [raised |-> "ValueError",
              exc |-> Exception("ValueError", "get_custom_kwargs", custom.missing),
              events |-> <<>>, logs |-> <<>>, closure |-> <<>>, rule_info |-> <<>>]
        ELSE IF clazz.shape = "class"
        THEN LET fallback == first = "TypeError"
                 outcome  == IF fallback THEN second ELSE first
                 events   == IF fallback
                             THEN <<Event("init_with_table_namer", first),
                                    Event("init_without_table_namer", second)>>
                             ELSE <<Event("init_with_table_namer", first)>>
                 logs     == IF fallback
                             THEN <<LogRecord("warning", "NO_TABLE_NAMER", <<>>)>>
                             ELSE <<>>
                 meta     == rule_metadata(clazz, "get_query_specs")
             IN  IF outcome /= "None"
                 THEN failed(outcome, "init", events, logs)
                 ELSE IF meta.raised /= "None"
                 THEN failed(meta.raised, "inspect", events, logs)
                 ELSE [raised |-> "None", exc |-> NoException,
                       events |-> events, logs |-> logs,
                       closure |-> [shape |-> "class",
                                    table_namer |-> ~fallback,
                                    binds |-> TRUE,
                                    kwargs |-> custom.kwargs],
                       rule_info |-> meta.info]
        ELSE LET meta == rule_metadata(clazz, "clean_function")
             IN  IF meta.raised /= "None"
                 THEN failed(meta.raised, "inspect", <<>>, <<>>)
                 ELSE [raised |-> "None", exc |-> NoException,
                       events |-> <<>>, logs |-> <<>>,
                       \* query_function will call clazz(project_id,
                       \* dataset_id, sandbox_dataset_id, **kwargs)
                       closure |-> [shape |-> "function",
                                    table_namer |-> FALSE,
                                    binds |-> Binds(clazz.sig, 3, names),
                                    kwargs |-> custom.kwargs],
                       rule_info |-> meta.info]

----------------------------------------------------------------------------
(* Query dicts and job configurations *)

ProjectId == "project"

\* the text of the k-th query of a query list
QueryText(k) == <<"SELECT", k>>

\* the query dicts a rule of the pipeline produces at position k: a query
\* alone, and a query that names a destination table and no destination
\* dataset
QueryDictAt(kind, k) ==
    CASE kind = "plain" -> [query |-> QueryText(k)]
      [] kind = "no_dataset" ->
            [query |-> QueryText(k), destination_table |-> "table"]

QueryKinds == {"plain", "no_dataset"}

QueryLists ==
    { [k \in 1..Len(kinds) |-> QueryDictAt(kinds[k], k)] :
        kinds \in SeqUpTo(QueryKinds, MaxQueries) }

\* gbq.job.QueryJobConfig(): nothing set
DefaultJobConfig ==
    [destination |-> PyNone, use_legacy_sql |-> PyNone,
     allow_large_results |-> PyNone, write_disposition |-> PyNone]

\* f'{project_id}.{dataset}.{table}', the id TableReference.from_string
\* splits back into a table reference
table_id(project_id, dataset, table) ==
    project_id \o "." \o Format(dataset) \o "." \o Format(table)

\* the write disposition is left unset when the query dict gives none
generate_job_config_no_default(project_id, query_dict) ==
    IF Get(query_dict, "destination_table", PyNone) = PyNone
    THEN [raised |-> "None", job_config |-> DefaultJobConfig]
    ELSE IF "destination_dataset" \notin DOMAIN query_dict
    THEN [raised |-> "KeyError", job_config |-> DefaultJobConfig]
    ELSE LET legacy == Get(query_dict, "legacy_sql", PyFalse)
         IN  [raised |-> "None",
              job_config |->
                [destination |-> table_id(project_id,
                                          query_dict["destination_dataset"],
                                          query_dict["destination_table"]),
                 use_legacy_sql |-> legacy,
                 allow_large_results |-> legacy,
                 write_disposition |-> Get(query_dict, "disposition", PyNone)]]

\* allow_large_results is read from the query dict
generate_job_config_independent(project_id, query_dict) ==
    IF Get(query_dict, "destination_table", PyNone) = PyNone
    THEN [raised |-> "None", job_config |-> DefaultJobConfig]
    ELSE IF "destination_dataset" \notin DOMAIN query_dict
    THEN [raised |-> "KeyError", job_config |-> DefaultJobConfig]
    ELSE LET legacy == Get(query_dict, "legacy_sql", PyFalse)
         IN  [raised |-> "None",
              job_config |->
                [destination |-> table_id(project_id,
                                          query_dict["destination_dataset"],
                                          query_dict["destination_table"]),
                 use_legacy_sql |-> legacy,
                 allow_large_results |-> Get(query_dict, "allow_large_results", legacy),
                 write_disposition |-> Get(query_dict, "disposition", "WRITE_EMPTY")]]

\* generate_job_config(project_id, query_dict): the job configuration, or
\* the KeyError of query_dict[DESTINATION_DATASET]
generate_job_config(project_id, query_dict) ==
    IF Get(query_dict, "destination_table", PyNone) = PyNone
    THEN [raised |-> "None", job_config |-> DefaultJobConfig]
    ELSE IF "destination_dataset" \notin DOMAIN query_dict
    THEN [raised |-> "KeyError", job_config |-> DefaultJobConfig]
    ELSE LET legacy == Get(query_dict, "legacy_sql", PyFalse)
         IN  [raised |-> "None",
              job_config |->
                [destination |-> table_id(project_id,
                                          query_dict["destination_dataset"],
                                          query_dict["destination_table"]),
                 use_legacy_sql |-> legacy,
                 allow_large_results |-> legacy,
                 write_disposition |-> Get(query_dict, "disposition", "WRITE_EMPTY")]]

\* module_name.split('.')[-1][:10]
ShortNameLen == 10
module_short_name(module_name) ==
    LET last == module_name[Len(module_name)]
    IN  SubSeq(last, 1, IF Len(last) < ShortNameLen THEN Len(last) ELSE ShortNameLen)

job_id_prefix(module_name) == module_short_name(module_name) \o <<"_">>

\* Template.render(*args, **kwargs) of a jinja2 template: the context is
\* dict(*args, **kwargs), a TypeError with more than one positional argument
render(template, positional, keywords) ==
    IF Len(positional) > 1
    THEN [raised |-> "TypeError", text |-> <<>>]
    ELSE [raised |-> "None", text |-> [template |-> template, context |-> keywords]]

----------------------------------------------------------------------------
(* clean_dataset and run_queries, one step per call on a rule or the client *)

\* the trace's record of call ev made while rule r, query q is processed;
\* value is the job of a query or result call, the client of a setup call,
\* the query list a query function returned
Stamp(ev, r, q, value) ==
    [op |-> ev.op, raised |-> ev.raised, rule |-> r, query_no |-> q, value |-> value]

StampAll(events, r, q) == [i \in 1..Len(events) |-> Stamp(events[i], r, q, <<>>)]

NoRule == -1
NoQuery == -1
NoJob == 0

\* the new jobs put in front of the list
extend_front(list, more) == more \o list

\* all_jobs.extend(jobs)
extend(list, more) == list \o more

\* the job is not put on the list
append_dropped(list, item) == list

\* jobs.append(query_job)
append(list, item) == Append(list, item)

\* the error wrapped in an error of the engine's own
reraise_wrapped(exp) == [type |-> "RuntimeError", origin |-> "run_queries", message |-> exp]

\* raise exp in the except clause of run_queries
reraise(exp) == exp

\* the job's errors are not looked at
job_failed_never(job) == FALSE

\* if query_job.errors
job_failed(job) == job.errors /= <<>>

\* setup_function is not called
after_infer_rule_no_setup(raised) == IF raised /= "None" THEN "raised" ELSE "produce"

\* where clean_dataset goes on after infer_rule: an exception leaves it
after_infer_rule(raised) == IF raised /= "None" THEN "raised" ELSE "setup"

\* an exception of setup_function is swallowed
after_setup_swallow(raised) == "produce"

\* where clean_dataset goes on after setup_function(client)
after_setup(raised) == IF raised /= "None" THEN "raised" ELSE "produce"

\* where clean_dataset goes on after query_function()
after_query_function(raised) == IF raised /= "None" THEN "raised" ELSE "queries"

\* the job is not waited for
after_query_no_wait(raised) == IF raised /= "None" THEN "raised" ELSE "queries"

\* where run_queries goes on after client.query
after_query(raised) == IF raised /= "None" THEN "raised" ELSE "result"

\* where run_queries goes on after query_job.result() and the check of the
\* job's errors
after_result(raised, failed) == IF raised /= "None" \/ failed THEN "raised" ELSE "queries"

\* what client.query and query_job.result() can do
SubmitOutcomes == {"None", "GoogleCloudError", "TOError"}
ResultOutcomes == {"done", "done_with_errors", "failed", "unreachable", "timeout"}

\* the exception query_job.result() raises
ResultRaises(outcome) ==
    CASE outcome \in {"failed", "unreachable"} -> "GoogleCloudError"
      [] outcome = "timeout" -> "TOError"
      [] OTHER -> "None"

\* the job after query_job.result() ended with outcome
JobAfter(job, outcome) ==
    CASE outcome = "done" -> [job EXCEPT !.state = "DONE"]
      [] outcome \in {"done_with_errors", "failed"} ->
            [job EXCEPT !.state = "DONE", !.errors = <<"error">>]
      [] OTHER -> job

\* the query dict is left out of the failure message
failure_context_no_query(project_id, info, query_dict, exp) ==
    Merge(Merge([project_id |-> project_id], info), [exception |-> exp])

\* the context of the failure message in the except clause
failure_context(project_id, info, query_dict, exp) ==
    Merge(Merge(Merge([project_id |-> project_id], info), query_dict),
          [exception |-> exp])

\* the query is sent with the rule's function name put in front of it
client_query_tagged(project_id, query_dict, job_config, info) ==
    [project |-> project_id,
     query |-> <<info.function_name>> \o query_dict.query,
     job_config |-> job_config,
     job_id_prefix |-> job_id_prefix(info.module_name),
     state |-> "RUNNING", errors |-> <<>>]

\* the job client.query(query=..., job_config=..., job_id_prefix=...) starts
client_query(project_id, query_dict, job_config, info) ==
    [project |-> project_id,
     query |-> query_dict.query,
     job_config |-> job_config,
     job_id_prefix |-> job_id_prefix(info.module_name),
     state |-> "RUNNING", errors |-> <<>>]

\* the **kwargs of the clean_dataset calls: none, or cutoff_date with an
\* option no rule declares (clean_dataset's own parameters cannot come in
\* through them)
PipelineKwargs ==
    {kw \in Options : /\ DOMAIN kw \in {{}, {"cutoff_date", "extra"}}
                      /\ \A k \in DOMAIN kw : kw[k] = "2022-01-01"}

\* the credentials are obtained whether or not run_as is given
impersonation_creds_always(account) ==
    [obtained |-> TRUE, credentials |-> "impersonated"]

\* clean_dataset, lines 50-54: the credentials the client is created with,
\* and whether get_impersonation_credentials was called for them
impersonation_creds(account) ==
    IF account /= PyNone
    THEN [obtained |-> TRUE, credentials |-> "impersonated"]
    ELSE [obtained |-> FALSE, credentials |-> PyNone]

PipelineInit ==
    /\ pc = "start"
    /\ n_rules \in 0..MaxRules
    /\ run_as \in {PyNone, "service-account"}
    /\ kwargs \in PipelineKwargs
    /\ client = [created |-> FALSE, project |-> PyNone, credentials |-> PyNone]
    /\ rule_index = 0
    /\ closure = <<>>
    /\ rule_info = <<>>
    /\ query_list = <<>>
    /\ query_no = 0
    /\ jobs = <<>>
    /\ all_jobs = <<>>
    /\ cur_job = NoJob
    /\ exc = NoException
    /\ bq_jobs = <<>>
    /\ log = <<>>
    /\ trace = <<>>

\* clean_dataset, lines 50-58: the client of the run
CreateClient ==
    /\ pc = "start"
    /\ LET creds == impersonation_creds(run_as)
       IN  /\ client' = [created |-> TRUE, project |-> ProjectId,
                         credentials |-> creds.credentials]
           /\ trace' = trace \o
                  (IF creds.obtained
                   THEN <<Stamp(Event("get_impersonation_credentials", "None"), NoRule, NoQuery, <<>>)>>
                   ELSE <<>>)
                  \o <<Stamp(Event("BigQueryClient", "None"), NoRule, NoQuery, client')>>
    /\ all_jobs' = <<>>
    /\ rule_index' = 0
    /\ pc' = "rules"
    /\ UNCHANGED resolver_vars
    /\ UNCHANGED listing_vars
    /\ UNCHANGED snapshot_vars
    /\ UNCHANGED bucket_vars
    /\ UNCHANGED qrid_vars
    /\ UNCHANGED config_vars
    /\ UNCHANGED list_vars
    /\ UNCHANGED pair_vars
    /\ UNCHANGED adapter_vars
    /\ UNCHANGED <<n_rules, run_as, kwargs, closure, rule_info, query_list, query_no,
                   jobs, cur_job, exc, bq_jobs, log>>

\* clean_dataset, lines 59-67: the next rule of the list is adapted
InferRule ==
    /\ pc = "rules"
    /\ rule_index < n_rules
    /\ \E clazz \in RuleSet :
         LET r == infer_rule(clazz, kwargs)
         IN  \* the trace notes with the call the parameters the rule lacked
             /\ trace' = trace \o StampAll(r.events, rule_index, NoQuery)
                             \o <<Stamp(Event("infer_rule", r.raised), rule_index, NoQuery,
                                        Lacking(clazz.sig, DOMAIN kwargs))>>
             /\ pc' = after_infer_rule(r.raised)
             /\ IF r.raised /= "None"
                THEN /\ exc' = r.exc
                     /\ log' = log \o r.logs
                     /\ UNCHANGED <<closure, rule_info>>
                ELSE /\ closure' = r.closure
                     /\ rule_info' = r.rule_info
                     /\ log' = log \o r.logs \o
                          <<LogRecord("info", "APPLYING",
                                      [module_name |-> r.rule_info.module_name,
                                       rule_no |-> rule_index + 1,
                                       rule_count |-> n_rules])>>
                     /\ exc' = exc
    /\ UNCHANGED resolver_vars
    /\ UNCHANGED listing_vars
    /\ UNCHANGED snapshot_vars
    /\ UNCHANGED bucket_vars
    /\ UNCHANGED qrid_vars
    /\ UNCHANGED config_vars
    /\ UNCHANGED list_vars
    /\ UNCHANGED pair_vars
    /\ UNCHANGED adapter_vars
    /\ UNCHANGED <<n_rules, run_as, kwargs, client, rule_index, query_list, query_no,
                   jobs, all_jobs, cur_job, bq_jobs>>

\* clean_dataset, line 68: setup_function(client)
SetupRule ==
    /\ pc = "setup"
    /\ \E raised \in (IF closure.shape = "class" THEN {"None", "RuleError"} ELSE {"None"}) :
         /\ trace' = Append(trace, Stamp(Event("setup_function", raised),
                                         rule_index, NoQuery, client))
         /\ pc' = after_setup(raised)
         /\ exc' = IF raised /= "None"
                   THEN Exception(raised, "setup_function", <<>>)
                   ELSE exc
    /\ UNCHANGED resolver_vars
    /\ UNCHANGED listing_vars
    /\ UNCHANGED snapshot_vars
    /\ UNCHANGED bucket_vars
    /\ UNCHANGED qrid_vars
    /\ UNCHANGED config_vars
    /\ UNCHANGED list_vars
    /\ UNCHANGED pair_vars
    /\ UNCHANGED adapter_vars
    /\ UNCHANGED <<n_rules, run_as, kwargs, client, rule_index, closure, rule_info,
                   query_list, query_no, jobs, all_jobs, cur_job, bq_jobs, log>>

\* clean_dataset, line 69, and run_queries, lines 112-113: query_function()
ProduceQueries ==
    /\ pc = "produce"
    /\ \E ql \in {l \in QueryLists : Len(all_jobs) + Len(l) <= MaxQueries} :
       \E raised \in (IF closure.binds THEN {"None", "RuleError"} ELSE {"TypeError"}) :
         /\ trace' = Append(trace, Stamp(Event("query_function", raised), rule_index,
                                         NoQuery, IF raised /= "None" THEN <<>> ELSE ql))
         /\ pc' = after_query_function(raised)
         /\ IF raised /= "None"
            THEN /\ exc' = Exception(raised, "query_function", <<>>)
                 /\ UNCHANGED <<query_list, query_no, jobs>>
            ELSE /\ query_list' = ql
                 /\ query_no' = 0
                 /\ jobs' = <<>>
                 /\ exc' = exc
    /\ UNCHANGED resolver_vars
    /\ UNCHANGED listing_vars
    /\ UNCHANGED snapshot_vars
    /\ UNCHANGED bucket_vars
    /\ UNCHANGED qrid_vars
    /\ UNCHANGED config_vars
    /\ UNCHANGED list_vars
    /\ UNCHANGED pair_vars
    /\ UNCHANGED adapter_vars
    /\ UNCHANGED <<n_rules, run_as, kwargs, client, rule_index, closure, rule_info,
                   all_jobs, cur_job, bq_jobs, log>>

\* run_queries, lines 114-127: one query of the list is submitted
SubmitQuery ==
    /\ pc = "queries"
    /\ query_no < Len(query_list)
    /\ LET query_dict == query_list[query_no + 1]
           run_record == LogRecord("info", "QUERY_RUN",
                             Merge([query_no |-> query_no,
                                    query_count |-> Len(query_list)], rule_info))
           config == generate_job_config(client.project, query_dict)
       IN  IF config.raised /= "None"
           THEN \* not a GoogleCloudError or a timeout: it leaves the try as it is
                /\ pc' = "raised"
                /\ exc' = Exception(config.raised, "generate_job_config", <<>>)
                /\ log' = Append(log, run_record)
                /\ UNCHANGED <<jobs, cur_job, bq_jobs, trace>>
           ELSE \E raised \in SubmitOutcomes :
                  /\ trace' = Append(trace, Stamp(Event("query", raised), rule_index, query_no,
                                        IF raised /= "None" THEN NoJob ELSE Len(bq_jobs) + 1))
                  /\ pc' = after_query(raised)
                  /\ IF raised /= "None"
                     THEN LET exp == Exception(raised, "query", <<>>)
                          IN  /\ log' = log \o
                                   <<run_record,
                                     LogRecord("exception", "FAILURE",
                                        failure_context(client.project, rule_info,
                                                        query_dict, exp))>>
                              /\ exc' = reraise(exp)
                              /\ UNCHANGED <<jobs, cur_job, bq_jobs>>
                     ELSE LET job_id == Len(bq_jobs) + 1
                          IN  /\ bq_jobs' = Append(bq_jobs,
                                     client_query(client.project, query_dict,
                                                  config.job_config, rule_info))
                              /\ jobs' = append(jobs, job_id)
                              /\ cur_job' = job_id
                              /\ log' = log \o
                                   <<run_record,
                                     LogRecord("info", "RUNNING", [job_id |-> job_id])>>
                              /\ exc' = exc
    /\ UNCHANGED resolver_vars
    /\ UNCHANGED listing_vars
    /\ UNCHANGED snapshot_vars
    /\ UNCHANGED bucket_vars
    /\ UNCHANGED qrid_vars
    /\ UNCHANGED config_vars
    /\ UNCHANGED list_vars
    /\ UNCHANGED pair_vars
    /\ UNCHANGED adapter_vars
    /\ UNCHANGED <<n_rules, run_as, kwargs, client, rule_index, closure, rule_info,
                   query_list, query_no, all_jobs>>

\* run_queries, lines 129-148: the wait for the job, and what follows it
WaitJob ==
    /\ pc = "result"
    /\ \E outcome \in ResultOutcomes :
         LET query_dict == query_list[query_no + 1]
             raised == ResultRaises(outcome)
             job    == JobAfter(bq_jobs[cur_job], outcome)
         IN  /\ bq_jobs' = [bq_jobs EXCEPT ![cur_job] = job]
             /\ trace' = Append(trace, Stamp(Event("result", raised), rule_index,
                                             query_no, cur_job))
             /\ pc' = after_result(raised, job_failed(job))
             /\ IF raised /= "None"
                THEN LET exp == Exception(raised, "result", <<>>)
                     IN  /\ log' = Append(log,
                                LogRecord("exception", "FAILURE",
                                   failure_context(client.project, rule_info,
                                                   query_dict, exp)))
                         /\ exc' = reraise(exp)
                         /\ UNCHANGED query_no
                ELSE IF job_failed(job)
                THEN LET message == render("FAILURE", <<client.project, cur_job>>,
                                           Merge(rule_info, query_dict))
                     IN  /\ exc' = IF message.raised /= "None"
                                   THEN Exception(message.raised, "render", <<>>)
                                   ELSE Exception("RuntimeError", "run_queries", message.text)
                         /\ UNCHANGED <<log, query_no>>
                ELSE /\ log' = Append(log,
                            LogRecord("info", "SUCCESS",
                               Merge([project_id |-> client.project,
                                      query_job |-> cur_job,
                                      query_no |-> query_no,
                                      query_count |-> Len(query_list)], rule_info)))
                     /\ query_no' = query_no + 1
                     /\ exc' = exc
    /\ UNCHANGED resolver_vars
    /\ UNCHANGED listing_vars
    /\ UNCHANGED snapshot_vars
    /\ UNCHANGED bucket_vars
    /\ UNCHANGED qrid_vars
    /\ UNCHANGED config_vars
    /\ UNCHANGED list_vars
    /\ UNCHANGED pair_vars
    /\ UNCHANGED adapter_vars
    /\ UNCHANGED <<n_rules, run_as, kwargs, client, rule_index, closure, rule_info,
                   query_list, jobs, all_jobs, cur_job>>

\* the loop takes the same rule again
next_rule_again(index) == index

\* for rule_index, rule in enumerate(rules): the index of the next rule
next_rule(index) == index + 1

\* run_queries, line 149, and clean_dataset, lines 70-74: the rule is done
FinishRule ==
    /\ pc = "queries"
    /\ query_no = Len(query_list)
    /\ log' = Append(log,
           LogRecord("info", "RULE_DONE",
                     [module_name |-> rule_info.module_name,
                      jobs |-> Len(jobs), queries |-> Len(query_list)]))
    /\ all_jobs' = extend(all_jobs, jobs)
    /\ rule_index' = next_rule(rule_index)
    /\ pc' = "rules"
    /\ UNCHANGED resolver_vars
    /\ UNCHANGED listing_vars
    /\ UNCHANGED snapshot_vars
    /\ UNCHANGED bucket_vars
    /\ UNCHANGED qrid_vars
    /\ UNCHANGED config_vars
    /\ UNCHANGED list_vars
    /\ UNCHANGED pair_vars
    /\ UNCHANGED adapter_vars
    /\ UNCHANGED <<n_rules, run_as, kwargs, client, closure, rule_info, query_list,
                   query_no, jobs, cur_job, exc, bq_jobs, trace>>

\* the job handles clean_dataset hands to its caller: all_jobs when it
\* returns; when it raises its lists go with its frame and the exception
\* carries none
caller_jobs == IF pc = "returned" THEN all_jobs ELSE <<>>

\* clean_dataset, line 75: return all_jobs
ReturnJobs ==
    /\ pc = "rules"
    /\ rule_index = n_rules
    /\ pc' = "returned"
    /\ UNCHANGED resolver_vars
    /\ UNCHANGED listing_vars
    /\ UNCHANGED snapshot_vars
    /\ UNCHANGED bucket_vars
    /\ UNCHANGED qrid_vars
    /\ UNCHANGED config_vars
    /\ UNCHANGED list_vars
    /\ UNCHANGED pair_vars
    /\ UNCHANGED adapter_vars
    /\ UNCHANGED <<n_rules, run_as, kwargs, client, rule_index, closure, rule_info,
                   query_list, query_no, jobs, all_jobs, cur_job, exc, bq_jobs,
                   log, trace>>

Next ==
    \/ CreateClient
    \/ InferRule
    \/ SetupRule
    \/ ProduceQueries
    \/ SubmitQuery
    \/ WaitJob
    \/ FinishRule
    \/ ReturnJobs

\* no get_custom_kwargs call of its own is under way
ResolverIdle ==
    /\ r_pc = "idle"
    /\ r_clazz = <<>>
    /\ r_kwargs = <<>>
    /\ r_result = <<>>

\* no infer_rule call of its own is under way
AdapterIdle ==
    /\ a_pc = "idle"
    /\ a_clazz = <<>>
    /\ a_kwargs = <<>>
    /\ a_result = <<>>
    /\ a_trace = <<>>

\* no pair of runs is under way
PairIdle ==
    /\ pair_pc = -1
    /\ pair_input = <<>>
    /\ pair_runs = <<>>

\* no generate_job_config call of its own is under way
ConfigIdle ==
    /\ c_pc = "idle"
    /\ c_query_dict = <<>>
    /\ c_result = <<>>
    /\ c_job = <<>>

\* no get_query_list call is under way
ListIdle ==
    /\ l_pc = "idle"
    /\ rules = <<>>
    /\ l_kwargs = <<>>
    /\ l_index = 0
    /\ l_closure = <<>>
    /\ all_queries_list = <<>>
    /\ returned_lists = <<>>
    /\ l_exc = NoException
    /\ l_trace = <<>>
    /\ l_run = <<>>

\* no run of QRIDtoRID is under way
QridIdle ==
    /\ q_pc = "idle"
    /\ q_kwargs = <<>>
    /\ q_result = <<>>
    /\ q_trace = <<>>
    /\ q_query_list = <<>>
    /\ q_run = <<>>

\* no HPOBucket is in use
BucketIdle ==
    /\ b_lock = <<>>
    /\ b_bucket = 0
    /\ b_updated = 0
    /\ b_clock = 0
    /\ b_contacts = 0
    /\ b_calls = 0
    /\ b_threads = <<>>

\* create_id_match_tables is not running
SnapshotIdle ==
    /\ s_pc = "idle"
    /\ partitions_df = <<>>
    /\ hpo_info = <<>>
    /\ s_index = 0
    /\ partition_date = PyNone
    /\ s_exc = PyNone
    /\ s_trace = <<>>

\* list_bucket is not running
ListingIdle ==
    /\ g_pc = "idle"
    /\ listing = <<>>
    /\ req = 0
    /\ resp = <<>>
    /\ all_objects = <<>>
    /\ g_result = <<>>
    /\ g_trace = <<>>

Init ==
    /\ PipelineInit
    /\ ResolverIdle
    /\ AdapterIdle
    /\ PairIdle
    /\ ConfigIdle
    /\ ListIdle
    /\ QridIdle
    /\ BucketIdle
    /\ SnapshotIdle
    /\ ListingIdle

Spec == Init /\ [][Next]_vars

----------------------------------------------------------------------------
(* Properties of clean_dataset and run_queries *)

Calls(ops) == {p \in 1..Len(trace) : trace[p].op \in ops}

\* the client.query calls, and those that returned a job
QueryCalls == Calls({"query"})
Submitted == {p \in QueryCalls : trace[p].raised = "None"}

\* call p is made for an earlier rule, or an earlier query of the same rule,
\* than call q
Before(p, q) ==
    \/ trace[p].rule < trace[q].rule
    \/ trace[p].rule = trace[q].rule /\ trace[p].query_no < trace[q].query_no

\* the calls whose exception clean_dataset does not handle
Raising == {p \in Calls({"infer_rule", "setup_function", "query_function",
                         "query", "result"}) : trace[p].raised /= "None"}

\* the waits that returned normally for a job that carries errors
WaitsWithErrors ==
    {p \in Calls({"result"}) :
        trace[p].raised = "None" /\ bq_jobs[trace[p].value].errors /= <<>>}

\* C1: when clean_dataset returns, the returned sequence holds the jobs in the
\* order of their submission, the submissions went by rule and then by query,
\* and each rule has one job per QuerySpec of its query list, the k-th job
\* running the k-th QuerySpec's query.
C1_Sequencing ==
    pc = "returned" =>
      /\ Len(caller_jobs) = Cardinality(Submitted)
      /\ \A p \in Submitted :
            caller_jobs[Cardinality({q \in Submitted : q <= p})] = trace[p].value
      /\ \A p, q \in Submitted : p < q => Before(p, q)
      /\ \A f \in Calls({"query_function"}) :
            LET ql   == trace[f].value
                mine == {p \in Submitted : trace[p].rule = trace[f].rule}
            IN  /\ Cardinality(mine) = Len(ql)
                /\ \A p \in mine :
                      /\ trace[p].query_no \in 0..(Len(ql) - 1)
                      /\ bq_jobs[trace[p].value].query = ql[trace[p].query_no + 1].query

\* two rules ran and returned three jobs or more between them
C1_Witness ==
    /\ pc = "returned"
    /\ Len(all_jobs) >= 3
    /\ \E p, q \in Submitted : trace[p].rule = 0 /\ trace[q].rule = 1

\* C2: once a wait returned normally for a job that carries errors, run_queries
\* has raised and no later QuerySpec of the list is submitted.
C2_FailFast ==
    \A p \in WaitsWithErrors :
      /\ pc = "raised"
      /\ exc /= NoException
      /\ \A q \in QueryCalls :
            ~(trace[q].rule = trace[p].rule /\ trace[q].query_no > trace[p].query_no)
      /\ \A q \in QueryCalls : q < p

\* the second of three queries ended with errors
C2_Witness ==
    /\ pc = "raised"
    /\ Len(query_list) = 3
    /\ query_no = 1
    /\ Len(trace) \in WaitsWithErrors

\* C3: an exception of a rule's adaptation, setup, query production or query
\* execution ends the run with that exception: nothing is called after it, no
\* later rule is touched and the run takes no further step.
C3_AbortOnFirstFailure ==
    /\ \A p \in Raising :
          /\ pc = "raised"
          /\ exc.type = trace[p].raised
          /\ p = Len(trace)
    /\ WaitsWithErrors /= {} => pc = "raised"
    /\ pc = "raised" =>
          /\ exc /= NoException
          /\ \A p \in 1..Len(trace) : trace[p].rule <= rule_index
          /\ ~ENABLED Next

\* the first of two rules raised
C3_Witness ==
    /\ pc = "raised"
    /\ n_rules = 2
    /\ rule_index = 0
    /\ Raising /= {}

\* C4: before a rule's query function is called or one of its queries is
\* submitted, its setup function was called once, with the client of the run,
\* and returned; no rule is set up twice; after a setup that raised, no query of
\* the rule is submitted.
C4_SetupBeforeQueries ==
    LET Setups(r) == {q \in Calls({"setup_function"}) : trace[q].rule = r}
    IN  /\ \A p \in Calls({"query_function", "query"}) :
              LET before == {q \in Setups(trace[p].rule) : q < p}
              IN  /\ Cardinality(before) = 1
                  /\ \A q \in before : trace[q].raised = "None" /\ trace[q].value = client
        /\ \A r \in 0..(n_rules - 1) : Cardinality(Setups(r)) <= 1
        /\ \A q \in Calls({"setup_function"}) :
              trace[q].raised /= "None" =>
                 \A p \in Calls({"query_function", "query"}) : trace[p].rule /= trace[q].rule

\* a query of the second rule is submitted
C4_Witness ==
    \E p \in QueryCalls : trace[p].rule = 1

\* C5: the queries are submitted by rule and then by query, each after the
\* wait for the one before it returned; every job but the latest is terminal,
\* so at most one job is not.
C5_Sequential ==
    /\ \A p, q \in QueryCalls : p < q => Before(p, q)
    /\ \A p \in Submitted : \A q \in QueryCalls :
          p < q => \E w \in Calls({"result"}) :
                      p < w /\ w < q /\ trace[w].value = trace[p].value
                      /\ trace[w].raised = "None"
    /\ \A j \in 1..(Len(bq_jobs) - 1) : bq_jobs[j].state = "DONE"
    /\ Cardinality({j \in 1..Len(bq_jobs) : bq_jobs[j].state /= "DONE"}) <= 1

\* the second rule waits for a job after the first rule's jobs are done
C5_Witness ==
    /\ pc = "result"
    /\ rule_index = 1
    /\ Len(all_jobs) >= 1
    /\ bq_jobs[cur_job].state = "RUNNING"

\* C6: a GoogleCloudError or a timeout of client.query or query_job.result()
\* leaves run_queries as the error the client raised, nothing is called after
\* it, and no QuerySpec is submitted twice.
C6_NoRetry ==
    /\ \A p \in Calls({"query", "result"}) :
          trace[p].raised \in {"GoogleCloudError", "TOError"} =>
             /\ p = Len(trace)
             /\ pc = "raised"
             /\ exc = Exception(trace[p].raised, trace[p].op, <<>>)
    /\ \A p, q \in QueryCalls :
          (trace[p].rule = trace[q].rule /\ trace[p].query_no = trace[q].query_no) => p = q

\* the submission of a rule's second query raised a GoogleCloudError
C6_Witness ==
    /\ pc = "raised"
    /\ exc = Exception("GoogleCloudError", "query", <<>>)
    /\ query_no = 1

\* the calls made on rule r or for it on the client, infer_rule apart
RuleCalls(r) ==
    {p \in Calls({"init_with_table_namer", "init_without_table_namer",
                  "setup_function", "query_function", "query", "result"}) :
        trace[p].rule = r}

\* C13: when a rule of the list lacks a required parameter, its adaptation
\* raises the ValueError of get_custom_kwargs and the run ends with it; the
\* rule's constructor, setup function and query function are not called and
\* no query of the rule is submitted.
C13_PreFlight ==
    \A p \in Calls({"infer_rule"}) :
      trace[p].value /= {} =>
        /\ trace[p].raised = "ValueError"
        /\ p = Len(trace)
        /\ pc = "raised"
        /\ exc.type = "ValueError"
        /\ exc.origin = "get_custom_kwargs"
        /\ trace[p].value \subseteq Range(exc.message)
        /\ RuleCalls(trace[p].rule) = {}

\* the second rule lacks a parameter after the first ran a query
C13_Witness ==
    /\ pc = "raised"
    /\ rule_index = 1
    /\ Len(all_jobs) >= 1
    /\ trace[Len(trace)].op = "infer_rule"
    /\ trace[Len(trace)].value /= {}

\* C7 as claimed: when the run fails, every job submitted before the failure
\* is in the sequence the caller receives.
C7_Claim ==
    pc = "raised" => \A p \in Submitted : trace[p].value \in Range(caller_jobs)

\* C7: when the run fails, every job submitted before the failure is on the
\* engine's own lists, the jobs of earlier rules on all_jobs and those of the
\* failing rule, the failing job among them, on run_queries' jobs; the caller
\* receives the exception and no job.
C7_PartialProgressNotReturned ==
    pc = "raised" =>
      /\ \A p \in Submitted :
            IF trace[p].rule < rule_index
            THEN trace[p].value \in Range(all_jobs)
            ELSE trace[p].value \in Range(jobs)
      /\ caller_jobs = <<>>

\* the second rule failed on a job it had submitted
C7_Witness ==
    /\ pc = "raised"
    /\ rule_index = 1
    /\ Len(all_jobs) >= 1
    /\ trace[Len(trace)].op = "result"
    /\ cur_job \in Range(jobs)

\* the exceptions that leave run_queries, by where they come from
InfrastructureFailure == pc = "raised" /\ exc.origin \in {"query", "result"}
OtherRunQueriesFailure ==
    pc = "raised" /\ exc.origin \in {"generate_job_config", "render", "run_queries"}

\* the last record logged is the failure message with the project, the rule's
\* metadata and the text of the query that failed
FailureLogged ==
    /\ log /= <<>>
    /\ LET last == log[Len(log)]
       IN  /\ last.template = "FAILURE"
           /\ {"project_id", "module_name", "function_name", "line_no", "query"}
                 \subseteq DOMAIN last.context
           /\ last.context.project_id = client.project
           /\ last.context.module_name = rule_info.module_name
           /\ last.context.function_name = rule_info.function_name
           /\ last.context.line_no = rule_info.line_no
           /\ last.context.query = query_list[query_no + 1].query

\* C8 as claimed: every failure that ends run_queries is preceded by a failure
\* log record with the project, the rule's metadata and the query's text.
C8_Claim ==
    (InfrastructureFailure \/ OtherRunQueriesFailure) => FailureLogged

\* C8: a GoogleCloudError or timeout of the submission or the wait is preceded
\* by a failure log record with the project, the rule's metadata, the query's
\* text and the exception; a job that completed with errors and an error of the
\* job configuration leave run_queries with no failure record logged.
C8_InfrastructureFailuresLogged ==
    /\ InfrastructureFailure =>
          /\ FailureLogged
          /\ log[Len(log)].level = "exception"
          /\ log[Len(log)].context.exception = exc
    /\ OtherRunQueriesFailure =>
          \A i \in 1..Len(log) : log[i].template /= "FAILURE"

\* the wait for a job timed out
C8_Witness ==
    /\ pc = "raised"
    /\ exc = Exception("TOError", "result", <<>>)

\* C9 as claimed: a job that completed its wait and carries errors ends
\* run_queries with a RuntimeError whose message holds the project, the rule's
\* metadata and the query's text.
C9_Claim ==
    \A p \in WaitsWithErrors :
      /\ pc = "raised"
      /\ exc.type = "RuntimeError"
      /\ {"module_name", "function_name", "line_no", "query"}
            \subseteq DOMAIN exc.message.context

----------------------------------------------------------------------------
(* One get_custom_kwargs call on drawn inputs *)

ResolveInit ==
    /\ r_pc = "call"
    /\ r_clazz \in Signatures
    /\ r_kwargs \in Options
    /\ r_result = [raised |-> "None", missing |-> <<>>, kwargs |-> <<>>]

Resolve ==
    /\ UNCHANGED pipeline_vars
    /\ UNCHANGED listing_vars
    /\ UNCHANGED snapshot_vars
    /\ UNCHANGED bucket_vars
    /\ UNCHANGED qrid_vars
    /\ UNCHANGED config_vars
    /\ UNCHANGED list_vars
    /\ UNCHANGED adapter_vars
    /\ UNCHANGED pair_vars
    /\ r_pc = "call"
    /\ r_result' = get_custom_kwargs(r_clazz, r_kwargs)
    /\ r_pc' = IF r_result'.raised = "None" THEN "returned" ELSE "raised"
    /\ UNCHANGED <<r_clazz, r_kwargs>>

\* no clean_dataset call is under way
PipelineIdle ==
    /\ pc = "idle"
    /\ n_rules = 0
    /\ run_as = PyNone
    /\ kwargs = <<>>
    /\ client = [created |-> FALSE, project |-> PyNone, credentials |-> PyNone]
    /\ rule_index = 0
    /\ closure = <<>>
    /\ rule_info = <<>>
    /\ query_list = <<>>
    /\ query_no = 0
    /\ jobs = <<>>
    /\ all_jobs = <<>>
    /\ cur_job = NoJob
    /\ exc = NoException
    /\ bq_jobs = <<>>
    /\ log = <<>>
    /\ trace = <<>>

InitResolve ==
    /\ ResolveInit
    /\ PipelineIdle
    /\ AdapterIdle
    /\ PairIdle
    /\ ConfigIdle
    /\ ListIdle
    /\ QridIdle
    /\ BucketIdle
    /\ SnapshotIdle
    /\ ListingIdle

NextResolve == Resolve

SpecResolve == InitResolve /\ [][NextResolve]_vars

----------------------------------------------------------------------------
(* Properties of get_custom_kwargs *)

\* the parameter names a signature declares
Declared(sig) == {sig[i].name : i \in 1..Len(sig)}

\* C10: when get_custom_kwargs returns, its result holds the supplied options
\* named like a declared parameter that is not one of the engine's, with their
\* values, and no other.
C10_FilteredOptions ==
    r_pc = "returned" =>
      LET keep == (DOMAIN r_kwargs) \cap (Declared(r_clazz) \ CLEAN_ENGINE_REQUIRED_PARAMS)
      IN  /\ DOMAIN r_result.kwargs = keep
          /\ \A k \in keep : r_result.kwargs[k] = r_kwargs[k]

\* cutoff_date and extra supplied to a rule that declares cutoff_date
C10_Witness ==
    /\ r_pc = "returned"
    /\ DOMAIN r_kwargs = {"cutoff_date", "extra"}
    /\ DOMAIN r_result.kwargs = {"cutoff_date"}
    /\ r_result.kwargs["cutoff_date"] = "2022-01-01"

\* the parameters of a signature that are not the engine's, have no default
\* and are not among the option names ks
Undefaulted(sig, ks) ==
    {sig[i].name : i \in {j \in 1..Len(sig) :
                            /\ sig[j].name \notin CLEAN_ENGINE_REQUIRED_PARAMS
                            /\ ~sig[j].has_default
                            /\ sig[j].name \notin ks}}

\* C11: when a rule declares a parameter that is not the engine's, has no
\* default and is absent from the supplied options, get_custom_kwargs raises
\* the ValueError, and the names it lists are those parameters, each once.
C11_MissingNamed ==
    (r_pc /= "call" /\ Undefaulted(r_clazz, DOMAIN r_kwargs) /= {}) =>
      /\ r_pc = "raised"
      /\ r_result.raised = "ValueError"
      /\ Range(r_result.missing) = Undefaulted(r_clazz, DOMAIN r_kwargs)
      /\ Len(r_result.missing) = Cardinality(Undefaulted(r_clazz, DOMAIN r_kwargs))

\* two parameters are absent, a third option is supplied and not declared
C11_Witness ==
    /\ r_pc = "raised"
    /\ Range(r_result.missing) = {"cutoff_date", "mapping_dataset"}
    /\ DOMAIN r_kwargs = {"extra"}

\* C12 as claimed: when every named parameter of a rule that is not the
\* engine's and has no default is among the supplied options,
\* get_custom_kwargs does not raise the ValueError.
C12_Claim ==
    (r_pc /= "call" /\ Lacking(r_clazz, DOMAIN r_kwargs) = {}) =>
      r_result.raised /= "ValueError"

\* the *args and **kwargs parameters a signature declares
Variadic(sig) == {i \in 1..Len(sig) : sig[i].kind /= "named"}

\* C31: get_custom_kwargs counts a declared *args or **kwargs parameter among
\* the required ones: a rule that declares one is rejected with the
\* ValueError that names it unless an option of that very name is supplied,
\* and is accepted, that option handed on, when one is and nothing else is
\* missing.
C31_VariadicRequired ==
    r_pc /= "call" =>
      /\ \A i \in Variadic(r_clazz) :
            r_clazz[i].name \notin DOMAIN r_kwargs =>
              /\ r_pc = "raised"
              /\ r_result.raised = "ValueError"
              /\ r_clazz[i].name \in Range(r_result.missing)
      /\ ( /\ Variadic(r_clazz) /= {}
           /\ \A i \in Variadic(r_clazz) : r_clazz[i].name \in DOMAIN r_kwargs
           /\ Lacking(r_clazz, DOMAIN r_kwargs) = {} ) =>
              /\ r_pc = "returned"
              /\ \A i \in Variadic(r_clazz) :
                    r_clazz[i].name \in DOMAIN r_result.kwargs

\* a rule that declares cutoff_date and **kwargs is handed cutoff_date and
\* rejected for kwargs
C31_Witness ==
    /\ r_pc = "raised"
    /\ Len(r_clazz) = 5
    /\ r_clazz[4].name = "cutoff_date"
    /\ r_clazz[5].kind = "var_keyword"
    /\ DOMAIN r_kwargs = {"cutoff_date"}
    /\ r_result.missing = <<"kwargs">>

----------------------------------------------------------------------------
(* One infer_rule call on a drawn candidate, and calls of what it returned *)

\* the most calls made of the closures infer_rule returned
MaxCalls == 2

\* the arguments of the infer_rule call
DatasetId == "dataset"
SandboxDatasetId == "sandbox"
TableNamer == "namer"

\* candidates that are no rules: an object that is not callable, and a
\* callable that takes no arguments
NonRules ==
    { [shape |-> "object", sig |-> <<>>, init_raises |-> "None",
       module |-> NoModule, has_source |-> FALSE] }
    \cup
    { [shape |-> "function", sig |-> <<>>, init_raises |-> "None",
       module |-> m, has_source |-> TRUE] : m \in ModuleNames }

Candidates == RuleSet \cup NonRules

\* the options of the infer_rule calls
AdaptOptions == {kw \in Options : \A k \in DOMAIN kw : kw[k] = "2022-01-01"}

\* what a rule's query function returns
ProducedLists == {l \in QueryLists : Len(l) <= 1 /\ \A k \in 1..Len(l) : l[k] = QueryDictAt("plain", k)}

\* a call of a closure ("setup_function", "query_function") or a call a
\* closure made ("setup_rule", "get_query_specs", "clazz")
ClosureEvent(op, raised, args, kw, value) ==
    [op |-> op, raised |-> raised, args |-> args, kwargs |-> kw, value |-> value]

\* the table namer is passed on to the function
legacy_args_with_table_namer == <<ProjectId, DatasetId, SandboxDatasetId, TableNamer>>

\* the positional arguments of clazz(...) on line 239
legacy_args == <<ProjectId, DatasetId, SandboxDatasetId>>

ClosureCalls == {p \in 1..Len(a_trace) : a_trace[p].op \in {"setup_function", "query_function"}}

AdaptInit ==
    /\ a_pc = "call"
    /\ a_clazz \in Candidates
    /\ a_kwargs \in AdaptOptions
    /\ a_result = <<>>
    /\ a_trace = <<>>

\* infer_rule(clazz, project_id, dataset_id, sandbox_dataset_id, table_namer,
\* **kwargs)
Adapt ==
    /\ a_pc = "call"
    /\ a_result' = infer_rule(a_clazz, a_kwargs)
    /\ a_pc' = IF a_result'.raised = "None" THEN "adapted" ELSE "raised"
    /\ UNCHANGED <<a_clazz, a_kwargs, a_trace>>
    /\ UNCHANGED pipeline_vars
    /\ UNCHANGED resolver_vars
    /\ UNCHANGED listing_vars
    /\ UNCHANGED snapshot_vars
    /\ UNCHANGED bucket_vars
    /\ UNCHANGED qrid_vars
    /\ UNCHANGED config_vars
    /\ UNCHANGED list_vars
    /\ UNCHANGED pair_vars

\* setup_function(client): instance.setup_rule of line 225, or the function of
\* lines 241-245, whose body is pass
CallSetup ==
    /\ a_pc = "adapted"
    /\ Cardinality(ClosureCalls) < MaxCalls
    /\ IF a_result.closure.shape = "class"
       THEN \E raised \in {"None", "RuleError"} :
              /\ a_trace' = a_trace \o
                    <<ClosureEvent("setup_rule", raised, <<"client">>, <<>>, PyNone),
                      ClosureEvent("setup_function", raised, <<"client">>, <<>>, PyNone)>>
              /\ a_pc' = IF raised /= "None" THEN "raised" ELSE "adapted"
       ELSE /\ a_trace' = Append(a_trace,
                    ClosureEvent("setup_function", "None", <<"client">>, <<>>, PyNone))
            /\ a_pc' = "adapted"
    /\ UNCHANGED <<a_clazz, a_kwargs, a_result>>
    /\ UNCHANGED pipeline_vars
    /\ UNCHANGED resolver_vars
    /\ UNCHANGED listing_vars
    /\ UNCHANGED snapshot_vars
    /\ UNCHANGED bucket_vars
    /\ UNCHANGED qrid_vars
    /\ UNCHANGED config_vars
    /\ UNCHANGED list_vars
    /\ UNCHANGED pair_vars

\* query_function(): instance.get_query_specs of line 224, or the function of
\* lines 234-239, which calls clazz(project_id, dataset_id,
\* sandbox_dataset_id, **kwargs) and returns what it returns
CallQueryFunction ==
    /\ a_pc = "adapted"
    /\ Cardinality(ClosureCalls) < MaxCalls
    /\ LET c == a_result.closure
       IN  \E ql \in ProducedLists :
           \E raised \in (IF c.shape = "class" THEN {"None", "RuleError"}
                          ELSE IF Binds(a_clazz.sig, Len(legacy_args), DOMAIN c.kwargs)
                               THEN {"None", "RuleError"}
                               ELSE {"TypeError"}) :
             LET value == IF raised /= "None" THEN PyNone ELSE ql
                 inner == IF c.shape = "class"
                          THEN ClosureEvent("get_query_specs", raised, <<>>, <<>>, value)
                          ELSE ClosureEvent("clazz", raised, legacy_args, c.kwargs, value)
             IN  /\ a_trace' = a_trace \o
                        <<inner, ClosureEvent("query_function", raised, <<>>, <<>>, value)>>
                 /\ a_pc' = IF raised /= "None" THEN "raised" ELSE "adapted"
    /\ UNCHANGED <<a_clazz, a_kwargs, a_result>>
    /\ UNCHANGED pipeline_vars
    /\ UNCHANGED resolver_vars
    /\ UNCHANGED listing_vars
    /\ UNCHANGED snapshot_vars
    /\ UNCHANGED bucket_vars
    /\ UNCHANGED qrid_vars
    /\ UNCHANGED config_vars
    /\ UNCHANGED list_vars
    /\ UNCHANGED pair_vars

InitAdapt ==
    /\ AdaptInit
    /\ PipelineIdle
    /\ ResolverIdle
    /\ PairIdle
    /\ ConfigIdle
    /\ ListIdle
    /\ QridIdle
    /\ BucketIdle
    /\ SnapshotIdle
    /\ ListingIdle

NextAdapt ==
    \/ Adapt
    \/ CallSetup
    \/ CallQueryFunction

SpecAdapt == InitAdapt /\ [][NextAdapt]_vars

----------------------------------------------------------------------------
(* Properties of infer_rule *)

\* the options get_custom_kwargs lets through to the candidate
FilteredNames ==
    (DOMAIN a_kwargs) \cap (Declared(a_clazz.sig) \ CLEAN_ENGINE_REQUIRED_PARAMS)

\* the candidate's module and source lines can be found
MetadataAvailable == a_clazz.module /= NoModule /\ a_clazz.has_source

\* C14 as claimed: a structured rule whose constructor accepts (project_id,
\* dataset_id, sandbox_dataset_id, **options) and not the table namer as well
\* (and whose metadata can be determined) is adapted: the constructor call with
\* the table namer fails, the warning is logged, the call without it succeeds
\* and infer_rule returns that instance's closures.
C14_Claim ==
    ( /\ a_pc /= "call"
      /\ a_clazz.shape = "class"
      /\ a_clazz.init_raises = "None"
      /\ MetadataAvailable
      /\ Binds(a_clazz.sig, 3, FilteredNames)
      /\ ~Binds(a_clazz.sig, 4, FilteredNames) ) =>
        /\ a_result.raised = "None"
        /\ a_result.events = <<Event("init_with_table_namer", "TypeError"),
                               Event("init_without_table_namer", "None")>>
        /\ a_result.logs = <<LogRecord("warning", "NO_TABLE_NAMER", <<>>)>>
        /\ a_result.closure.shape = "class"
        /\ ~a_result.closure.table_namer

\* C15 as claimed: when the first constructor call fails although the
\* constructor accepts the table namer, no warning is logged, the constructor
\* is not called again and infer_rule raises that failure.
C15_Claim ==
    ( /\ a_pc /= "call"
      /\ a_clazz.shape = "class"
      /\ a_result.events /= <<>>
      /\ a_result.events[1].raised /= "None"
      /\ Binds(a_clazz.sig, 4, FilteredNames) ) =>
        /\ Len(a_result.events) = 1
        /\ a_result.logs = <<>>
        /\ a_result.raised = a_result.events[1].raised

\* C16: infer_rule does not call a legacy rule; each call of the query
\* function it returns calls the rule once, with (project_id, dataset_id,
\* sandbox_dataset_id) and the filtered options, and ends as that call ends,
\* with its result or its exception; the setup function calls nothing.
C16_LegacyClosure ==
    (a_pc /= "call" /\ a_clazz.shape = "function") =>
      /\ a_result.events = <<>>
      /\ \A p \in 1..Len(a_trace) :
            /\ a_trace[p].op \in {"setup_function", "clazz", "query_function"}
            /\ a_trace[p].op = "query_function" =>
                  /\ p > 1
                  /\ a_trace[p - 1].op = "clazz"
                  /\ a_trace[p - 1].args = <<ProjectId, DatasetId, SandboxDatasetId>>
                  /\ a_trace[p - 1].kwargs = Restrict(a_kwargs, FilteredNames)
                  /\ a_trace[p - 1].raised = a_trace[p].raised
                  /\ a_trace[p - 1].value = a_trace[p].value
            /\ a_trace[p].op = "clazz" =>
                  /\ p < Len(a_trace)
                  /\ a_trace[p + 1].op = "query_function"

\* the query function of a legacy rule with an option is called twice, with
\* an undeclared option supplied
C16_Witness ==
    /\ a_pc = "adapted"
    /\ a_clazz.shape = "function"
    /\ DOMAIN a_kwargs = {"cutoff_date", "extra"}
    /\ Cardinality({p \in 1..Len(a_trace) : a_trace[p].op = "clazz"}) = 2
    /\ \A p \in 1..Len(a_trace) :
          a_trace[p].op = "clazz" => DOMAIN a_trace[p].kwargs = {"cutoff_date"}

\* the candidate's parameters are supplied and, if it is a class, one of the
\* constructor calls returns: infer_rule comes to the metadata
Constructible ==
    /\ a_clazz.shape /= "object"
    /\ Undefaulted(a_clazz.sig, DOMAIN a_kwargs) = {}
    /\ a_clazz.shape = "class" =>
          \/ Instantiate(a_clazz, 4, FilteredNames) = "None"
          \/ /\ Instantiate(a_clazz, 4, FilteredNames) = "TypeError"
             /\ Instantiate(a_clazz, 3, FilteredNames) = "None"

\* C18 as claimed: when the module or the source line of a rule cannot be
\* determined, infer_rule returns with "unknown" in their place.
C18_Claim ==
    (a_pc /= "call" /\ Constructible /\ ~MetadataAvailable) =>
      /\ a_result.raised = "None"
      /\ a_clazz.module = NoModule => a_result.rule_info.module_name = <<"unknown">>
      /\ ~a_clazz.has_source => a_result.rule_info.line_no = "unknown"

\* C18: when the module of a rule cannot be determined infer_rule raises the
\* AttributeError of None.__name__, when its source cannot be found the
\* OSError of inspect.getsourcelines; it returns no closure and rule_info, and
\* neither the setup function nor the query function of the rule is called.
C18_MetadataRequired ==
    (a_pc /= "call" /\ Constructible /\ ~MetadataAvailable) =>
      /\ a_pc = "raised"
      /\ a_result.raised = (IF a_clazz.module = NoModule THEN "AttributeError" ELSE "OSError")
      /\ a_result.closure = <<>>
      /\ a_result.rule_info = <<>>
      /\ a_trace = <<>>

\* a class was instantiated and its module is not known
C18_Witness ==
    /\ a_pc = "raised"
    /\ a_clazz.shape = "class"
    /\ a_clazz.module = NoModule
    /\ a_result.events /= <<>>
    /\ a_result.events[Len(a_result.events)].raised = "None"
    /\ a_result.raised = "AttributeError"

\* C20 as claimed: a candidate that is no rule makes infer_rule raise an
\* error of its own kind for the unsupported shape.
C20_Claim ==
    (a_pc /= "call" /\ a_clazz \in NonRules) =>
      a_result.raised = "UnsupportedRuleShapeError"

----------------------------------------------------------------------------
(* Two runs of clean_dataset, each on one adapted rule, that are given the  *)
(* same query list by their rule and the same answers by the client         *)

\* the longest query list of the two runs
MaxPairQueries == 2

\* module names with different last components, one longer than the job id
\* prefix takes of it
PairModuleNames ==
    ModuleNames \cup
    { << <<"c", "l", "e", "a", "n", "_", "m", "a", "p", "p", "i", "n", "g">> >> }

\* the descriptive part of rule_info as infer_rule fills it: the query
\* function of a class is its get_query_specs, a function has its own name
PairRuleInfos(shape) ==
    LET first  == CHOOSE mod \in PairModuleNames : mod \in ModuleNames
        second == CHOOSE mod \in PairModuleNames : mod \notin ModuleNames
    IN  { [function_name |-> IF shape = "class" THEN "get_query_specs" ELSE "clean_function",
           module_name |-> first, line_no |-> "line"],
          [function_name |-> IF shape = "class" THEN "get_query_specs" ELSE "other_function",
           module_name |-> second, line_no |-> "another line"] }

\* an adapted rule: the shape of its closures, its metadata, and what its
\* setup function and its query function do when called
PairRules ==
    { r \in [ shape : {"class", "function"},
              rule_info : PairRuleInfos("class") \cup PairRuleInfos("function"),
              setup_raises : {"None", "RuleError"},
              produce_raises : {"None", "RuleError"} ] :
        /\ r.rule_info \in PairRuleInfos(r.shape)
        \* the setup function of a legacy rule is pass
        /\ r.shape = "function" => r.setup_raises = "None" }

\* two different rules whose query functions end alike, a structured rule
\* before a legacy one
PairsOfRules ==
    { rs \in PairRules \X PairRules :
        /\ rs[1] /= rs[2]
        /\ rs[1].produce_raises = rs[2].produce_raises
        /\ rs[1].shape = "function" => rs[2].shape = "function" }

\* the client's answer to one query: what client.query does and, when it
\* returns a job, what query_job.result() does
ClientAnswers ==
    { [submit |-> sub, result |-> "done"] : sub \in SubmitOutcomes \ {"None"} }
    \cup { [submit |-> "None", result |-> res] : res \in ResultOutcomes }

\* how a run ended: what it submitted, the jobs it returned if it returned,
\* the exception if it raised, the query it was at, and what it logged
RunEnd(submitted, returned, e, at, records) ==
    [submitted |-> submitted, returned |-> returned, exc |-> e, at |-> at,
     log |-> records]

\* run_queries from the k-th query dict on (k from 1), jobs and records being
\* the jobs appended and the records logged so far
RECURSIVE run_queries(_, _, _, _, _, _, _)
run_queries(project_id, queries, info, answers, k, jobs_so_far, records) ==
    IF k > Len(queries)
    THEN RunEnd(jobs_so_far, jobs_so_far, NoException, NoQuery, records)
    ELSE
      LET query_dict == queries[k]
          no         == k - 1
          run_record == LogRecord("info", "QUERY_RUN",
                           Merge([query_no |-> no, query_count |-> Len(queries)], info))
          config     == generate_job_config(project_id, query_dict)
          answer     == answers[k]
          job        == client_query(project_id, query_dict, config.job_config, info)
          listed     == append(jobs_so_far, job)
          waited     == ResultRaises(answer.result)
          done       == JobAfter(job, answer.result)
          caught(exp, submitted, logged) ==
              RunEnd(submitted, <<>>, reraise(exp), no,
                     Append(logged,
                            LogRecord("exception", "FAILURE",
                                      failure_context(project_id, info, query_dict, exp))))
      IN  IF config.raised /= "None"
          THEN RunEnd(jobs_so_far, <<>>,
                      Exception(config.raised, "generate_job_config", <<>>), no,
                      Append(records, run_record))
          ELSE IF after_query(answer.submit) = "raised"
          THEN caught(Exception(answer.submit, "query", <<>>), jobs_so_far,
                      Append(records, run_record))
          ELSE IF waited /= "None"
          THEN caught(Exception(waited, "result", <<>>), listed,
                      records \o <<run_record, LogRecord("info", "RUNNING", [job_id |-> k])>>)
          ELSE IF job_failed(done)
          THEN LET message == render("FAILURE", <<project_id, k>>, Merge(info, query_dict))
               IN  RunEnd(listed, <<>>,
                          IF message.raised /= "None"
                          THEN Exception(message.raised, "render", <<>>)
                          ELSE Exception("RuntimeError", "run_queries", message.text),
                          no,
                          records \o <<run_record, LogRecord("info", "RUNNING", [job_id |-> k])>>)
          ELSE run_queries(project_id, queries, info, answers, k + 1, listed,
                           records \o
                             <<run_record,
                               LogRecord("info", "RUNNING", [job_id |-> k]),
                               LogRecord("info", "SUCCESS",
                                  Merge([project_id |-> project_id, query_job |-> k,
                                         query_no |-> no,
                                         query_count |-> Len(queries)], info))>>)

\* the legacy closure hands on the first query dict only
query_function_result_first(rule, ql) ==
    IF rule.shape = "function" /\ Len(ql) > 1 THEN <<ql[1]>> ELSE ql

\* what query_function() returns when the rule produces ql: the list of
\* instance.get_query_specs(), or of clazz(...) on line 239
query_function_result(rule, ql) == ql

\* clean_dataset on the one rule, from line 65 on: the rule produces ql when
\* its query function returns, the client answers the k-th query as answers[k]
clean_rule(rule, ql, answers) ==
    LET applying == <<LogRecord("info", "APPLYING",
                                [module_name |-> rule.rule_info.module_name,
                                 rule_no |-> 1, rule_count |-> 1])>>
    IN  IF after_setup(rule.setup_raises) = "raised"
        THEN RunEnd(<<>>, <<>>, Exception(rule.setup_raises, "setup_function", <<>>),
                    NoQuery, applying)
        ELSE IF after_query_function(rule.produce_raises) = "raised"
        THEN RunEnd(<<>>, <<>>, Exception(rule.produce_raises, "query_function", <<>>),
                    NoQuery, applying)
        ELSE LET produced   == query_function_result(rule, ql)
                 run        == run_queries(ProjectId, produced, rule.rule_info,
                                           answers, 1, <<>>, applying)
             IN  IF run.exc /= NoException
                 THEN run
                 ELSE RunEnd(run.submitted, extend(<<>>, run.returned), NoException,
                             NoQuery,
                             Append(run.log,
                                    LogRecord("info", "RULE_DONE",
                                       [module_name |-> rule.rule_info.module_name,
                                        jobs |-> Len(run.returned),
                                        queries |-> Len(produced)])))

\* two rules, the list both produce and the client's answer to each query
PairInit ==
    /\ pair_pc = 0
    /\ \E n \in 0..MaxPairQueries :
       \E rs \in PairsOfRules :
       \E ql \in {l \in QueryLists : Len(l) = n} :
       \E ans \in [1..n -> ClientAnswers] :
         pair_input = [rules |-> rs, query_list |-> ql, answers |-> ans]
    /\ pair_runs = <<>>

\* one of the two clean_dataset calls, the first rule's before the second's
RunRule ==
    /\ pair_pc \in {0, 1}
    /\ pair_runs' = Append(pair_runs,
                           clean_rule(pair_input.rules[pair_pc + 1],
                                      pair_input.query_list, pair_input.answers))
    /\ pair_pc' = pair_pc + 1
    /\ UNCHANGED pair_input
    /\ UNCHANGED pipeline_vars
    /\ UNCHANGED resolver_vars
    /\ UNCHANGED listing_vars
    /\ UNCHANGED snapshot_vars
    /\ UNCHANGED bucket_vars
    /\ UNCHANGED qrid_vars
    /\ UNCHANGED config_vars
    /\ UNCHANGED list_vars
    /\ UNCHANGED adapter_vars

InitPair ==
    /\ PairInit
    /\ PipelineIdle
    /\ ResolverIdle
    /\ AdapterIdle
    /\ ConfigIdle
    /\ ListIdle
    /\ QridIdle
    /\ BucketIdle
    /\ SnapshotIdle
    /\ ListingIdle

NextPair == RunRule

SpecPair == InitPair /\ [][NextPair]_vars

----------------------------------------------------------------------------
(* Properties of two runs *)

\* what a run sent to the client: the text and the job configuration of each
\* query, in order
Submissions(run) ==
    [k \in 1..Len(run.submitted) |->
        [query |-> run.submitted[k].query, job_config |-> run.submitted[k].job_config]]

\* the jobs a run returned, as the queries they ran
ReturnedJobs(run) ==
    [k \in 1..Len(run.returned) |->
        [query |-> run.returned[k].query, job_config |-> run.returned[k].job_config]]

\* where and how a run ended
FailurePoint(run) ==
    IF run.exc = NoException
    THEN <<"returned">>
    ELSE <<run.exc.type, run.exc.origin, run.at>>

SameToTheDriver ==
    /\ Submissions(pair_runs[1]) = Submissions(pair_runs[2])
    /\ ReturnedJobs(pair_runs[1]) = ReturnedJobs(pair_runs[2])
    /\ FailurePoint(pair_runs[1]) = FailurePoint(pair_runs[2])

C19_MetadataOnly ==
    ( /\ pair_pc = 2
      /\ pair_input.rules[1].shape = pair_input.rules[2].shape
      /\ pair_input.rules[1].setup_raises = pair_input.rules[2].setup_raises
      /\ pair_input.rules[1].produce_raises = pair_input.rules[2].produce_raises ) =>
        /\ SameToTheDriver
        /\ \A i \in 1..2 : \A k \in 1..Len(pair_runs[i].submitted) :
              pair_runs[i].submitted[k].job_id_prefix =
                 job_id_prefix(pair_input.rules[i].rule_info.module_name)

\* two legacy rules of different names and modules returned two jobs each,
\* under different job id prefixes
C19_Witness ==
    /\ pair_pc = 2
    /\ pair_input.rules[1].shape = "function"
    /\ pair_input.rules[2].shape = "function"
    /\ pair_input.rules[1].rule_info.function_name /= pair_input.rules[2].rule_info.function_name
    /\ \A i \in 1..2 : Len(pair_runs[i].returned) = 2
    /\ pair_runs[1].submitted[1].job_id_prefix /= pair_runs[2].submitted[1].job_id_prefix
    /\ pair_runs[1].log /= pair_runs[2].log

----------------------------------------------------------------------------
(* generate_job_config on every shape of query dict, and the submission of
   the configuration it builds (run_queries, lines 119-126) *)

\* the dicts with key k set to one of values, and the dict without it
Optional(k, values) == {<<>>} \cup {[x \in {k} |-> v] : v \in values}

\* the rule the query dict comes from
ConfigRuleInfo ==
    [function_name |-> "get_query_specs",
     module_name |-> CHOOSE mod \in ModuleNames : TRUE,
     line_no |-> "line"]

\* a query dict: each key besides the query text is absent, None where a
\* rule may leave it so, or set
ConfigInit ==
    /\ c_pc = "call"
    /\ \E table \in Optional("destination_table", {PyNone, "table"}),
          dataset \in Optional("destination_dataset", {PyNone, "dataset"}),
          legacy \in Optional("legacy_sql", {PyTrue, PyFalse}),
          disposition \in Optional("disposition",
                                   {"WRITE_EMPTY", "WRITE_APPEND", "WRITE_TRUNCATE"}),
          large \in Optional("allow_large_results", {PyTrue}) :
            c_query_dict =
                Merge(Merge(Merge(Merge(Merge([query |-> QueryText(1)], table),
                                        dataset), legacy), disposition), large)
    /\ c_result = <<>>
    /\ c_job = <<>>

\* job_config = generate_job_config(client.project, query_dict)
BuildConfig ==
    /\ c_pc = "call"
    /\ c_result' = generate_job_config(ProjectId, c_query_dict)
    /\ c_pc' = IF c_result'.raised = "None" THEN "built" ELSE "raised"
    /\ UNCHANGED <<c_query_dict, c_job>>
    /\ UNCHANGED pipeline_vars
    /\ UNCHANGED resolver_vars
    /\ UNCHANGED listing_vars
    /\ UNCHANGED snapshot_vars
    /\ UNCHANGED bucket_vars
    /\ UNCHANGED qrid_vars
    /\ UNCHANGED adapter_vars
    /\ UNCHANGED pair_vars
    /\ UNCHANGED list_vars

\* query_job = client.query(query=..., job_config=job_config, ...)
SubmitConfigured ==
    /\ c_pc = "built"
    /\ c_job' = client_query(ProjectId, c_query_dict, c_result.job_config,
                             ConfigRuleInfo)
    /\ c_pc' = "submitted"
    /\ UNCHANGED <<c_query_dict, c_result>>
    /\ UNCHANGED pipeline_vars
    /\ UNCHANGED resolver_vars
    /\ UNCHANGED listing_vars
    /\ UNCHANGED snapshot_vars
    /\ UNCHANGED bucket_vars
    /\ UNCHANGED qrid_vars
    /\ UNCHANGED adapter_vars
    /\ UNCHANGED pair_vars
    /\ UNCHANGED list_vars

InitConfig ==
    /\ ConfigInit
    /\ PipelineIdle
    /\ ResolverIdle
    /\ AdapterIdle
    /\ PairIdle
    /\ ListIdle
    /\ QridIdle
    /\ BucketIdle
    /\ SnapshotIdle
    /\ ListingIdle

NextConfig ==
    \/ BuildConfig
    \/ SubmitConfigured

SpecConfig == InitConfig /\ [][NextConfig]_vars

\* key k of the query dict is set: present and not None
IsSet(query_dict, k) == Get(query_dict, k, PyNone) /= PyNone

\* generate_job_config has returned a configuration
ConfigBuilt == c_pc \in {"built", "submitted"}

\* C21: the configuration generate_job_config returns has a destination if
\* and only if the query dict's destination table is set. When it is set,
\* the destination is project.dataset.table and the write disposition is the
\* dict's disposition, WRITE_EMPTY if it has none; when it is not set, the
\* configuration has no destination and no write disposition.
C21_Destination ==
    ConfigBuilt =>
        LET cfg == c_result.job_config
        IN  /\ cfg.destination /= PyNone <=> IsSet(c_query_dict, "destination_table")
            /\ IsSet(c_query_dict, "destination_table") =>
                 /\ cfg.destination =
                       table_id(ProjectId, c_query_dict["destination_dataset"],
                                c_query_dict["destination_table"])
                 /\ cfg.write_disposition =
                       IF "disposition" \in DOMAIN c_query_dict
                       THEN c_query_dict["disposition"] ELSE "WRITE_EMPTY"
            /\ ~IsSet(c_query_dict, "destination_table") =>
                 /\ cfg.destination = PyNone
                 /\ cfg.write_disposition = PyNone

\* a query with a destination table and dataset and no disposition was
\* submitted to write to project.dataset.table if it is empty
C21_Witness ==
    /\ c_pc = "submitted"
    /\ IsSet(c_query_dict, "destination_table")
    /\ IsSet(c_query_dict, "destination_dataset")
    /\ "disposition" \notin DOMAIN c_query_dict
    /\ c_job.job_config.destination = "project.dataset.table"
    /\ c_job.job_config.write_disposition = "WRITE_EMPTY"

\* C22: a query dict with legacy_sql true, with or without a destination
\* table, gets a configuration with use_legacy_sql and allow_large_results
\* true.
C22_Claim ==
    (ConfigBuilt /\ Get(c_query_dict, "legacy_sql", PyFalse) = PyTrue) =>
        /\ c_result.job_config.use_legacy_sql = PyTrue
        /\ c_result.job_config.allow_large_results = PyTrue

\* C23: a query dict whose destination table is set and whose destination
\* dataset is absent or None is rejected: no configuration with a
\* destination is built for it and no query is submitted.
C23_Claim ==
    ( /\ IsSet(c_query_dict, "destination_table")
      /\ ~IsSet(c_query_dict, "destination_dataset")
      /\ c_pc /= "call" ) =>
        /\ c_pc = "raised"
        /\ c_job = <<>>

\* C28: in every configuration generate_job_config returns,
\* allow_large_results equals use_legacy_sql, whatever the query dict says
\* under an allow_large_results key of its own.
C28_Derived ==
    ConfigBuilt =>
        c_result.job_config.allow_large_results = c_result.job_config.use_legacy_sql

\* a query dict that asks for large results and standard SQL got neither
C28_Witness ==
    /\ ConfigBuilt
    /\ IsSet(c_query_dict, "destination_table")
    /\ Get(c_query_dict, "allow_large_results", PyNone) = PyTrue
    /\ Get(c_query_dict, "legacy_sql", PyNone) = PyFalse
    /\ c_result.job_config.allow_large_results = PyFalse
    /\ c_result.job_config.use_legacy_sql = PyFalse

----------------------------------------------------------------------------
(* get_query_list, one step per call on a rule, called again with the same
   arguments; then clean_dataset on the same rules with a client that runs
   every query without error *)

MaxListRules == 2
MaxListCalls == 2

\* a query dict with a destination table in a dataset
QueryDictInto(k) ==
    Merge(QueryDictAt("no_dataset", k), [destination_dataset |-> "dataset"])

\* the query lists the rules produce
ListSpecs ==
    { <<>>,
      <<QueryDictAt("plain", 1)>>,
      <<QueryDictAt("plain", 2), QueryDictInto(3)>> }

\* the rules' signatures: the three dataset parameters alone, followed by
\* table_namer, followed by a cutoff_date without a default
ListSignatures ==
    { DatasetParams,
      DatasetParams \o <<Param("table_namer", FALSE, "named")>>,
      DatasetParams \o <<Param("cutoff_date", FALSE, "named")>> }

\* a rule: its clazz, the list its query function returns on an instance
\* whose setup_rule has not run (fresh) and on one whose setup_rule has
\* (set_up). A legacy function has no instance and its setup is pass.
ListRules ==
    { r \in [ clazz : {c \in RuleSet : /\ c.sig \in ListSignatures
                                        /\ c.init_raises = "None"
                                        /\ c.module /= NoModule
                                        /\ c.has_source},
              fresh : ListSpecs,
              set_up : ListSpecs ] :
        /\ r.clazz.shape = "function" => r.fresh = r.set_up
        /\ r.fresh /= r.set_up =>
              /\ r.fresh = <<QueryDictAt("plain", 1)>>
              /\ Len(r.set_up) = 2 }

\* the list is what the caller's last call left
new_list_kept(old) == old

\* all_queries_list = []
new_list(old) == <<>>

\* query_function() of a rule infer_rule adapted to closure: the list of
\* instance.get_query_specs(), or of clazz(project_id, dataset_id,
\* sandbox_dataset_id, **kwargs), whose TypeError it is when the arguments
\* do not bind; was_set_up tells whether setup_function ran before
query_function(rule, adapted, was_set_up) ==
    IF ~adapted.binds
    THEN [raised |-> "TypeError", query_list |-> <<>>]
    ELSE [raised |-> "None",
          query_list |-> IF was_set_up /\ adapted.shape = "class"
                         THEN rule.set_up ELSE rule.fresh]

\* every query of the list runs and ends without error
AllDone(queries) == [k \in 1..Len(queries) |-> [submit |-> "None", result |-> "done"]]

\* clean_dataset's loop from the k-th rule on (k from 1): specs are the
\* query dicts submitted so far and all the jobs of all_jobs
RECURSIVE clean_dataset_from(_, _, _, _, _)
clean_dataset_from(rs, kw, k, specs, all) ==
    IF k > Len(rs)
    THEN [exc |-> NoException, submitted |-> specs, all_jobs |-> all]
    ELSE
      LET r        == infer_rule(rs[k].clazz, kw)
          produced == query_function(rs[k], r.closure, TRUE)
          run      == run_queries(ProjectId, produced.query_list, r.rule_info,
                                  AllDone(produced.query_list), 1, <<>>, <<>>)
          sent     == [i \in 1..Len(run.submitted) |-> produced.query_list[i]]
      IN  IF after_infer_rule(r.raised) = "raised"
          THEN [exc |-> r.exc, submitted |-> specs, all_jobs |-> <<>>]
          ELSE IF after_query_function(produced.raised) = "raised"
          THEN [exc |-> Exception(produced.raised, "query_function", <<>>),
                submitted |-> specs, all_jobs |-> <<>>]
          ELSE IF run.exc /= NoException
          THEN [exc |-> run.exc, submitted |-> specs \o sent, all_jobs |-> <<>>]
          ELSE clean_dataset_from(rs, kw, k + 1, specs \o sent,
                                  extend(all, run.returned))

ListInit ==
    /\ l_pc = "call"
    /\ \E n \in 0..MaxListRules : rules \in [1..n -> ListRules]
    /\ l_kwargs \in PipelineKwargs
    /\ l_index = 0
    /\ l_closure = <<>>
    /\ all_queries_list = <<>>
    /\ returned_lists = <<>>
    /\ l_exc = NoException
    /\ l_trace = <<>>
    /\ l_run = <<>>

\* get_query_list, line 274
ListStart ==
    /\ l_pc = "call"
    /\ all_queries_list' = new_list(all_queries_list)
    /\ l_index' = 0
    /\ l_trace' = <<>>
    /\ l_pc' = "rules"
    /\ UNCHANGED <<rules, l_kwargs, l_closure, returned_lists, l_exc, l_run>>
    /\ UNCHANGED pipeline_vars
    /\ UNCHANGED resolver_vars
    /\ UNCHANGED listing_vars
    /\ UNCHANGED snapshot_vars
    /\ UNCHANGED bucket_vars
    /\ UNCHANGED qrid_vars
    /\ UNCHANGED adapter_vars
    /\ UNCHANGED pair_vars
    /\ UNCHANGED config_vars

\* get_query_list, lines 275-279: the next rule of the list is adapted
ListInfer ==
    /\ l_pc = "rules"
    /\ l_index < Len(rules)
    /\ LET r == infer_rule(rules[l_index + 1].clazz, l_kwargs)
       IN  /\ l_trace' = l_trace \o StampAll(r.events, l_index, NoQuery)
                           \o <<Stamp(Event("infer_rule", r.raised), l_index,
                                      NoQuery, <<>>)>>
           /\ IF r.raised /= "None"
              THEN /\ l_pc' = "raised"
                   /\ l_exc' = r.exc
                   /\ UNCHANGED l_closure
              ELSE /\ l_pc' = "produce"
                   /\ l_closure' = r.closure
                   /\ UNCHANGED l_exc
    /\ UNCHANGED <<rules, l_kwargs, l_index, all_queries_list, returned_lists, l_run>>
    /\ UNCHANGED pipeline_vars
    /\ UNCHANGED resolver_vars
    /\ UNCHANGED listing_vars
    /\ UNCHANGED snapshot_vars
    /\ UNCHANGED bucket_vars
    /\ UNCHANGED qrid_vars
    /\ UNCHANGED adapter_vars
    /\ UNCHANGED pair_vars
    /\ UNCHANGED config_vars

\* get_query_list, lines 280-281: query_function() on the rule as infer_rule
\* left it, and the extension of the list
ListProduce ==
    /\ l_pc = "produce"
    /\ LET produced == query_function(rules[l_index + 1], l_closure, FALSE)
       IN  /\ l_trace' = Append(l_trace,
                                Stamp(Event("query_function", produced.raised),
                                      l_index, NoQuery, produced.query_list))
           /\ IF produced.raised /= "None"
              THEN /\ l_pc' = "raised"
                   /\ l_exc' = Exception(produced.raised, "query_function", <<>>)
                   /\ UNCHANGED <<all_queries_list, l_index>>
              ELSE /\ all_queries_list' = extend(all_queries_list, produced.query_list)
                   /\ l_index' = l_index + 1
                   /\ l_pc' = "rules"
                   /\ UNCHANGED l_exc
    /\ UNCHANGED <<rules, l_kwargs, l_closure, returned_lists, l_run>>
    /\ UNCHANGED pipeline_vars
    /\ UNCHANGED resolver_vars
    /\ UNCHANGED listing_vars
    /\ UNCHANGED snapshot_vars
    /\ UNCHANGED bucket_vars
    /\ UNCHANGED qrid_vars
    /\ UNCHANGED adapter_vars
    /\ UNCHANGED pair_vars
    /\ UNCHANGED config_vars

\* get_query_list, line 282: return all_queries_list
ListReturn ==
    /\ l_pc = "rules"
    /\ l_index = Len(rules)
    /\ returned_lists' = Append(returned_lists, all_queries_list)
    /\ l_pc' = "returned"
    /\ UNCHANGED <<rules, l_kwargs, l_index, l_closure, all_queries_list, l_exc,
                   l_trace, l_run>>
    /\ UNCHANGED pipeline_vars
    /\ UNCHANGED resolver_vars
    /\ UNCHANGED listing_vars
    /\ UNCHANGED snapshot_vars
    /\ UNCHANGED bucket_vars
    /\ UNCHANGED qrid_vars
    /\ UNCHANGED adapter_vars
    /\ UNCHANGED pair_vars
    /\ UNCHANGED config_vars

\* the caller calls get_query_list again with the arguments of the last call
ListCallAgain ==
    /\ l_pc = "returned"
    /\ Len(returned_lists) < MaxListCalls
    /\ l_pc' = "call"
    /\ UNCHANGED <<rules, l_kwargs, l_index, l_closure, all_queries_list,
                   returned_lists, l_exc, l_trace, l_run>>
    /\ UNCHANGED pipeline_vars
    /\ UNCHANGED resolver_vars
    /\ UNCHANGED listing_vars
    /\ UNCHANGED snapshot_vars
    /\ UNCHANGED bucket_vars
    /\ UNCHANGED qrid_vars
    /\ UNCHANGED adapter_vars
    /\ UNCHANGED pair_vars
    /\ UNCHANGED config_vars

\* the caller calls clean_dataset with the arguments of the get_query_list
\* calls (clean_dataset, lines 58-75)
CleanSame ==
    /\ l_pc = "returned"
    /\ l_run' = clean_dataset_from(rules, l_kwargs, 1, <<>>, <<>>)
    /\ l_pc' = "cleaned"
    /\ UNCHANGED <<rules, l_kwargs, l_index, l_closure, all_queries_list,
                   returned_lists, l_exc, l_trace>>
    /\ UNCHANGED pipeline_vars
    /\ UNCHANGED resolver_vars
    /\ UNCHANGED listing_vars
    /\ UNCHANGED snapshot_vars
    /\ UNCHANGED bucket_vars
    /\ UNCHANGED qrid_vars
    /\ UNCHANGED adapter_vars
    /\ UNCHANGED pair_vars
    /\ UNCHANGED config_vars

InitList ==
    /\ ListInit
    /\ PipelineIdle
    /\ ResolverIdle
    /\ AdapterIdle
    /\ PairIdle
    /\ ConfigIdle
    /\ QridIdle
    /\ BucketIdle
    /\ SnapshotIdle
    /\ ListingIdle

NextList ==
    \/ ListStart
    \/ ListInfer
    \/ ListProduce
    \/ ListReturn
    \/ ListCallAgain
    \/ CleanSame

SpecList == InitList /\ [][NextList]_vars

\* the query lists the query_function calls of a trace returned, one after
\* the other
RECURSIVE Produced(_)
Produced(events) ==
    IF events = <<>> THEN <<>>
    ELSE LET ev == events[Len(events)]
             before == Produced(SubSeq(events, 1, Len(events) - 1))
         IN  IF ev.op = "query_function" /\ ev.raised = "None"
             THEN before \o ev.value ELSE before

\* the rules whose query function the trace has called, in the order of
\* the calls
RECURSIVE ProducerCalls(_)
ProducerCalls(events) ==
    IF events = <<>> THEN <<>>
    ELSE LET ev == events[Len(events)]
             before == ProducerCalls(SubSeq(events, 1, Len(events) - 1))
         IN  IF ev.op = "query_function" THEN Append(before, ev.rule) ELSE before

\* C24: get_query_list only adapts each rule and calls its query function,
\* rule after rule in the order of the list, and returns the produced lists
\* one after the other; it creates no client, calls no setup function and
\* submits no query.
C24_ReadOnly ==
    /\ \A i \in 1..Len(l_trace) :
          l_trace[i].op \in {"init_with_table_namer", "init_without_table_namer",
                             "infer_rule", "query_function"}
    /\ \A i, j \in 1..Len(l_trace) : i < j =>
          /\ l_trace[i].rule <= l_trace[j].rule
          /\ (l_trace[i].op = "query_function" /\ l_trace[j].op = "infer_rule")
                => l_trace[i].rule < l_trace[j].rule
    /\ l_pc \in {"rules", "produce", "returned", "raised", "cleaned"} =>
          all_queries_list = Produced(l_trace)
    /\ l_pc \in {"returned", "cleaned"} =>
          /\ ProducerCalls(l_trace) = [i \in 1..Len(rules) |-> i - 1]
          /\ returned_lists[Len(returned_lists)] = Produced(l_trace)

\* a call on two rules returned the one query of the first followed by the
\* two of the second
C24_Witness ==
    /\ l_pc = "returned"
    /\ Len(rules) = 2
    /\ Len(rules[1].fresh) = 1
    /\ Len(rules[2].fresh) = 2
    /\ returned_lists[1] = rules[1].fresh \o rules[2].fresh

\* C25: the list get_query_list returns is the sequence of query dicts a
\* clean_dataset call with the same arguments submits when no query fails,
\* also when a rule's setup function changes what its query function reads.
C25_Claim ==
    (l_pc = "cleaned" /\ l_run.exc = NoException) =>
        \A i \in 1..Len(returned_lists) : returned_lists[i] = l_run.submitted

\* C26: two get_query_list calls with the same arguments return lists of
\* the same length whose entries agree, position by position, in query text
\* and destination.
C26_Idempotent ==
    \A i, j \in 1..Len(returned_lists) :
        /\ Len(returned_lists[i]) = Len(returned_lists[j])
        /\ \A k \in 1..Len(returned_lists[i]) :
              \A key \in {"query", "destination_table", "destination_dataset"} :
                 Get(returned_lists[i][k], key, PyNone) =
                    Get(returned_lists[j][k], key, PyNone)

\* both calls returned three query dicts, the last with a destination
C26_Witness ==
    /\ Len(returned_lists) = 2
    /\ Len(returned_lists[2]) = 3
    /\ IsSet(returned_lists[2][3], "destination_table")

----------------------------------------------------------------------------
(* clean_dataset: the client of the run, the jobs it returns, and the
   moment a rule's parameters are looked at *)

\* C27: a clean_dataset call creates one client, before it adapts any rule;
\* every setup function is called with that client and every query is
\* submitted through it; get_impersonation_credentials is called if and
\* only if run_as is given, and its credentials are the client's.
C27_OneClient ==
    /\ pc = "start" => (Calls({"BigQueryClient"}) = {} /\ ~client.created)
    /\ pc \notin {"start", "idle"} =>
          /\ Cardinality(Calls({"BigQueryClient"})) = 1
          /\ \A p \in Calls({"BigQueryClient"}) :
                /\ trace[p].value = client
                /\ \A q \in Calls({"infer_rule", "init_with_table_namer",
                                   "init_without_table_namer", "setup_function",
                                   "query_function", "query", "result"}) : p < q
                /\ \A q \in Calls({"get_impersonation_credentials"}) : q < p
          /\ \A q \in Calls({"setup_function"}) : trace[q].value = client
          /\ \A k \in 1..Len(bq_jobs) : bq_jobs[k].project = client.project
          /\ Cardinality(Calls({"get_impersonation_credentials"})) =
                (IF run_as /= PyNone THEN 1 ELSE 0)
          /\ client.credentials = (IF run_as /= PyNone THEN "impersonated" ELSE PyNone)

\* a run as a service account set up two rules and ran a query of each
C27_Witness ==
    /\ pc = "returned"
    /\ run_as /= PyNone
    /\ rule_index = 2
    /\ Cardinality(Calls({"setup_function"})) = 2
    /\ Len(bq_jobs) = 2
    /\ Calls({"get_impersonation_credentials"}) /= {}

\* the job handles are of jobs that are done and have no errors
AllSucceeded(handles) ==
    \A k \in 1..Len(handles) :
        /\ bq_jobs[handles[k]].state = "DONE"
        /\ bq_jobs[handles[k]].errors = <<>>

\* C29: when run_queries returns, it returns one job for each query dict of
\* the list, each done and without errors; a clean_dataset call that returns
\* returns as many jobs as its rules produced query dicts, none failed.
C29_JobPerQuery ==
    /\ (pc = "queries" /\ query_no = Len(query_list)) =>
          /\ Len(jobs) = Len(query_list)
          /\ AllSucceeded(jobs)
    /\ pc = "returned" =>
          /\ Len(all_jobs) = Len(Produced(trace))
          /\ AllSucceeded(all_jobs)

\* a run of two rules returned the three jobs of their three queries
C29_Witness ==
    /\ pc = "returned"
    /\ n_rules = 2
    /\ Len(all_jobs) = 3
    /\ Len(Produced(trace)) = 3
    /\ Len(query_list) < 3

\* C30: a rule's parameters are looked at when the loop reaches the rule:
\* when the rule at position k lacks a required parameter, every rule before
\* it was set up and had every query it produced submitted and completed
\* before the error is raised.
C30_LateValidation ==
    \A p \in Calls({"infer_rule"}) :
      trace[p].value /= {} =>
        \A r \in 0..(trace[p].rule - 1) :
          /\ \E q \in Calls({"setup_function"}) :
                q < p /\ trace[q].rule = r /\ trace[q].raised = "None"
          /\ \E q \in Calls({"query_function"}) :
                /\ q < p /\ trace[q].rule = r /\ trace[q].raised = "None"
                /\ \A no \in 0..(Len(trace[q].value) - 1) :
                     /\ \E u \in Calls({"query"}) :
                           /\ q < u /\ u < p
                           /\ trace[u].rule = r /\ trace[u].query_no = no
                           /\ trace[u].raised = "None"
                           /\ bq_jobs[trace[u].value].query = trace[q].value[no + 1].query
                     /\ \E u \in Calls({"result"}) :
                           /\ q < u /\ u < p
                           /\ trace[u].rule = r /\ trace[u].query_no = no
                           /\ trace[u].raised = "None"
                           /\ bq_jobs[trace[u].value].state = "DONE"
                           /\ bq_jobs[trace[u].value].errors = <<>>

\* the second rule lacks a parameter; the first was set up and its two
\* queries ran before the ValueError
C30_Witness ==
    /\ pc = "raised"
    /\ exc.origin = "get_custom_kwargs"
    /\ rule_index = 1
    /\ Len(all_jobs) = 2
    /\ Len(bq_jobs) = 2
    /\ Calls({"setup_function"}) /= {}

----------------------------------------------------------------------------
(* clean_dataset when every call it makes comes back: each step of the
   driver is taken once it can be *)

SpecLive == Init /\ [][Next]_vars /\ WF_vars(Next)

\* no rule is adapted twice, no query of a rule submitted twice, no job
\* waited for twice, and the calls go through the rules, and through the
\* queries of a rule, in one direction
NoWayBack ==
    /\ \A p, q \in Calls({"infer_rule"}) : trace[p].rule = trace[q].rule => p = q
    /\ \A p, q \in Calls({"query"}) :
          (trace[p].rule = trace[q].rule /\ trace[p].query_no = trace[q].query_no)
             => p = q
    /\ \A p, q \in Calls({"result"}) : trace[p].value = trace[q].value => p = q
    /\ \A p, q \in Calls({"infer_rule", "setup_function", "query_function",
                          "query", "result"}) :
          p < q =>
            /\ trace[p].rule <= trace[q].rule
            /\ ( /\ trace[p].rule = trace[q].rule
                 /\ trace[p].op \in {"query", "result"}
                 /\ trace[q].op \in {"query", "result"} )
                  => trace[p].query_no <= trace[q].query_no

\* C32: with finitely many rules and queries, and every setup call and every
\* wait for a job coming back, clean_dataset returns or raises in the end;
\* it waits for no job twice and goes back to no earlier rule or query.
C32_Terminates ==
    /\ <>(pc \in {"returned", "raised"})
    /\ []NoWayBack

\* a run of two rules returned after it waited once for each of three jobs
C32_Witness ==
    /\ pc = "returned"
    /\ rule_index = 2
    /\ Cardinality(Calls({"result"})) = 3
    /\ Cardinality(Calls({"infer_rule"})) = 2
    /\ {trace[p].value : p \in Calls({"result"})} = {1, 2, 3}

----------------------------------------------------------------------------
(* clean_dataset on the rule list [(QRIDtoRID,)]
   (cleaning_rules/deid/questionnaire_response_id_map.py) *)

MapDatasetOption == "deid_questionnaire_response_map_dataset"

\* QRIDtoRID.__init__(self, project_id, dataset_id, sandbox_dataset_id,
\* table_namer=None, deid_questionnaire_response_map_dataset=None)
QRIDtoRID_sig ==
    DatasetParams \o << Param("table_namer", TRUE, "named"),
                        Param(MapDatasetOption, TRUE, "named") >>

\* not v, for the values an option takes here
Falsy(v) == v \in {PyNone, ""}

\* the constructor takes an empty mapping dataset as it is
qrid_init_lenient(kw) == "None"

\* the body of QRIDtoRID.__init__ called with the keyword arguments kw: the
\* TypeError of lines 63-65, or none
qrid_init(kw) ==
    IF Falsy(Get(kw, MapDatasetOption, PyNone)) THEN "TypeError" ELSE "None"

\* the class as infer_rule meets it in a call with the options kw
QRIDtoRID(kw) ==
    [shape |-> "class",
     sig |-> QRIDtoRID_sig,
     init_raises |-> qrid_init(Restrict(kw, {MapDatasetOption})),
     module |-> << <<"d", "e", "i", "d">>,
                   <<"q", "u", "e", "s", "t", "i", "o", "n", "n", "a", "i", "r", "e",
                     "_", "r", "e", "s", "p", "o", "n", "s", "e", "_", "i", "d",
                     "_", "m", "a", "p">> >>,
     has_source |-> TRUE]

\* QRIDtoRID.get_query_specs: the one mapping query, rendered from the
\* instance's project, dataset and mapping dataset
qrid_get_query_specs(project_id, dataset_id, map_dataset) ==
    << [query |-> <<"QRID_RID_MAPPING_QUERY", project_id, dataset_id, map_dataset>>] >>

\* QRIDtoRID.setup_rule(client): pass; the calls it makes on the client
qrid_setup_rule == <<>>

\* the options of the call: the mapping dataset and two options the rule
\* does not declare, each absent, None, empty or set
QridOptions ==
    UNION { [ks -> {PyNone, "", "map_dataset"}] :
               ks \in SUBSET {MapDatasetOption, "cutoff_date", "extra"} }

QridInit ==
    /\ q_pc = "call"
    /\ q_kwargs \in QridOptions
    /\ q_result = <<>>
    /\ q_trace = <<>>
    /\ q_query_list = <<>>
    /\ q_run = <<>>

\* clean_dataset, lines 60-63: infer_rule on the class
QridAdapt ==
    /\ q_pc = "call"
    /\ q_result' = infer_rule(QRIDtoRID(q_kwargs), q_kwargs)
    /\ q_trace' = [i \in 1..Len(q_result'.events) |->
                     [op |-> q_result'.events[i].op,
                      raised |-> q_result'.events[i].raised,
                      client_calls |-> <<>>]]
    /\ q_pc' = after_infer_rule(q_result'.raised)
    /\ UNCHANGED <<q_kwargs, q_query_list, q_run>>
    /\ UNCHANGED pipeline_vars
    /\ UNCHANGED resolver_vars
    /\ UNCHANGED listing_vars
    /\ UNCHANGED snapshot_vars
    /\ UNCHANGED bucket_vars
    /\ UNCHANGED adapter_vars
    /\ UNCHANGED pair_vars
    /\ UNCHANGED config_vars
    /\ UNCHANGED list_vars

\* clean_dataset, line 68: setup_function(client), the instance's setup_rule
QridSetup ==
    /\ q_pc = "setup"
    /\ q_trace' = Append(q_trace, [op |-> "setup_rule", raised |-> "None",
                                   client_calls |-> qrid_setup_rule])
    /\ q_pc' = after_setup("None")
    /\ UNCHANGED <<q_kwargs, q_result, q_query_list, q_run>>
    /\ UNCHANGED pipeline_vars
    /\ UNCHANGED resolver_vars
    /\ UNCHANGED listing_vars
    /\ UNCHANGED snapshot_vars
    /\ UNCHANGED bucket_vars
    /\ UNCHANGED adapter_vars
    /\ UNCHANGED pair_vars
    /\ UNCHANGED config_vars
    /\ UNCHANGED list_vars

\* clean_dataset, line 69: query_function(), the instance's get_query_specs
QridProduce ==
    /\ q_pc = "produce"
    /\ q_query_list' = qrid_get_query_specs(ProjectId, DatasetId,
                                            q_result.closure.kwargs[MapDatasetOption])
    /\ q_trace' = Append(q_trace, [op |-> "get_query_specs", raised |-> "None",
                                   client_calls |-> <<>>])
    /\ q_pc' = after_query_function("None")
    /\ UNCHANGED <<q_kwargs, q_result, q_run>>
    /\ UNCHANGED pipeline_vars
    /\ UNCHANGED resolver_vars
    /\ UNCHANGED listing_vars
    /\ UNCHANGED snapshot_vars
    /\ UNCHANGED bucket_vars
    /\ UNCHANGED adapter_vars
    /\ UNCHANGED pair_vars
    /\ UNCHANGED config_vars
    /\ UNCHANGED list_vars

\* clean_dataset, line 70: run_queries(client, query_list, rule_info)
QridRun ==
    /\ q_pc = "queries"
    /\ \E answers \in [1..Len(q_query_list) -> ClientAnswers] :
         q_run' = run_queries(ProjectId, q_query_list, q_result.rule_info,
                              answers, 1, <<>>, <<>>)
    /\ q_pc' = "done"
    /\ UNCHANGED <<q_kwargs, q_result, q_trace, q_query_list>>
    /\ UNCHANGED pipeline_vars
    /\ UNCHANGED resolver_vars
    /\ UNCHANGED listing_vars
    /\ UNCHANGED snapshot_vars
    /\ UNCHANGED bucket_vars
    /\ UNCHANGED adapter_vars
    /\ UNCHANGED pair_vars
    /\ UNCHANGED config_vars
    /\ UNCHANGED list_vars

InitQrid ==
    /\ QridInit
    /\ PipelineIdle
    /\ ResolverIdle
    /\ AdapterIdle
    /\ PairIdle
    /\ ConfigIdle
    /\ ListIdle
    /\ BucketIdle
    /\ SnapshotIdle
    /\ ListingIdle

NextQrid ==
    \/ QridAdapt
    \/ QridSetup
    \/ QridProduce
    \/ QridRun

SpecQrid == InitQrid /\ [][NextQrid]_vars

\* the calls of the trace with one of the names ops
QridCalls(ops) == {p \in 1..Len(q_trace) : q_trace[p].op \in ops}

\* C33: without a non-empty deid_questionnaire_response_map_dataset option
\* the run of QRIDtoRID ends in infer_rule with the TypeError of the rule's
\* constructor, not the ValueError of get_custom_kwargs, and no query is
\* produced or submitted; with one the rule produces one query dict that has
\* no destination, and its setup makes no call on the client.
C33_Qrid ==
    q_pc /= "call" =>
      IF Falsy(Get(q_kwargs, MapDatasetOption, PyNone))
      THEN /\ q_pc = "raised"
           /\ q_result.raised = "TypeError"
           /\ q_result.exc = Exception("TypeError", "init", <<>>)
           /\ QridCalls({"setup_rule", "get_query_specs"}) = {}
           /\ q_query_list = <<>>
           /\ q_run = <<>>
      ELSE /\ q_pc /= "raised"
           /\ q_result.raised = "None"
           /\ \A p \in QridCalls({"setup_rule"}) : q_trace[p].client_calls = <<>>
           /\ q_pc \in {"queries", "done"} =>
                 /\ Len(q_query_list) = 1
                 /\ ~IsSet(q_query_list[1], "destination_table")
                 /\ generate_job_config(ProjectId, q_query_list[1]).job_config.destination
                       = PyNone
           /\ q_pc = "done" => Len(q_run.submitted) <= 1

\* the run with the mapping dataset set up the rule and ran its one query
C33_Witness ==
    /\ q_pc = "done"
    /\ q_kwargs[MapDatasetOption] = "map_dataset"
    /\ QridCalls({"setup_rule"}) /= {}
    /\ Len(q_run.returned) = 1
    /\ q_run.returned[1].job_id_prefix = <<"q", "u", "e", "s", "t", "i", "o", "n", "n", "a", "_">>

----------------------------------------------------------------------------
(* HPOBucket (hpo/bucket.py): threads calling bucket() and bucket_updated()
   on one instance, one step per line that touches the lock, the cached
   bucket or its timestamp. The instance has the fields lines 31-50 give
   it. *)

\* the most calls the threads start, all together
MaxBucketCalls == 3

BucketThreads == {"t1", "t2"}
NoThread == "none"

\* threading.RLock(): not owned
FreeLock == [owner |-> NoThread, count |-> 0]

\* lock.acquire(blocking=False) by thread t: whether it got the lock, and
\* the lock after it
try_acquire(lock, t) ==
    IF lock.owner \in {NoThread, t}
    THEN [got |-> TRUE, lock |-> [owner |-> t, count |-> lock.count + 1]]
    ELSE [got |-> FALSE, lock |-> lock]

\* lock.release() by thread t: the RuntimeError of a thread that does not own
\* the lock, or the lock after it
release(lock, t) ==
    IF lock.owner /= t
    THEN [raised |-> "RuntimeError", lock |-> lock]
    ELSE [raised |-> "None",
          lock |-> IF lock.count = 1 THEN FreeLock
                   ELSE [owner |-> t, count |-> lock.count - 1]]

\* the bucket is opened on every call
needs_fetch_always(refresh, cached) == TRUE

\* if refresh or self._bucket is None
needs_fetch(refresh, cached) == refresh \/ cached = 0

\* what get_bucket can do: return the bucket, raise NotFound, raise another
\* error
FetchOutcomes == {"ok", "NotFound", "OtherError"}

\* an error that is not NotFound leaves bucket() at once
after_get_bucket_no_finally(outcome) ==
    CASE outcome = "ok" -> "b_stamp"
      [] outcome = "NotFound" -> "b_except"
      [] OTHER -> "b_return"

\* where bucket() goes on after line 107: the next line, the except clause,
\* or the finally clause
after_get_bucket(outcome) ==
    CASE outcome = "ok" -> "b_stamp"
      [] outcome = "NotFound" -> "b_except"
      [] OTHER -> "b_release"

\* no call made yet
NoCall ==
    [op |-> "none", raised |-> "None", value |-> 0, refresh |-> FALSE,
     got |-> FALSE, read_locked |-> FALSE, contacted |-> FALSE,
     cached_at_check |-> 0, before |-> <<0, 0>>, after |-> <<0, 0>>]

\* a thread between calls
IdleThread == [pc |-> "idle", call |-> NoCall, last |-> NoCall]

BucketInit ==
    /\ b_lock = FreeLock
    /\ b_bucket = 0
    /\ b_updated = 0
    /\ b_clock = 0
    /\ b_contacts = 0
    /\ b_calls = 0
    /\ b_threads = [t \in BucketThreads |-> IdleThread]

\* thread t moves to pc, its call's record changed to call
Step(t, pc_, call_) ==
    b_threads' = [b_threads EXCEPT ![t] = [@ EXCEPT !.pc = pc_, !.call = call_]]

\* a thread calls bucket(refresh)
CallBucket ==
    /\ b_calls < MaxBucketCalls
    /\ \E t \in BucketThreads, refresh \in BOOLEAN :
         /\ b_threads[t].pc = "idle"
         /\ Step(t, "b_acquire", [NoCall EXCEPT !.op = "bucket", !.refresh = refresh])
    /\ b_calls' = b_calls + 1
    /\ UNCHANGED <<b_lock, b_bucket, b_updated, b_clock, b_contacts>>
    /\ UNCHANGED pipeline_vars
    /\ UNCHANGED resolver_vars
    /\ UNCHANGED listing_vars
    /\ UNCHANGED snapshot_vars
    /\ UNCHANGED adapter_vars
    /\ UNCHANGED pair_vars
    /\ UNCHANGED config_vars
    /\ UNCHANGED list_vars
    /\ UNCHANGED qrid_vars

\* bucket, line 99: self._lock.acquire(True) waits until the lock is free
BucketAcquire ==
    /\ \E t \in BucketThreads :
         /\ b_threads[t].pc = "b_acquire"
         /\ try_acquire(b_lock, t).got
         /\ b_lock' = try_acquire(b_lock, t).lock
         /\ Step(t, "b_check", [b_threads[t].call EXCEPT !.got = TRUE,
                                                         !.before = <<b_bucket, b_updated>>])
    /\ UNCHANGED <<b_bucket, b_updated, b_clock, b_contacts, b_calls>>
    /\ UNCHANGED pipeline_vars
    /\ UNCHANGED resolver_vars
    /\ UNCHANGED listing_vars
    /\ UNCHANGED snapshot_vars
    /\ UNCHANGED adapter_vars
    /\ UNCHANGED pair_vars
    /\ UNCHANGED config_vars
    /\ UNCHANGED list_vars
    /\ UNCHANGED qrid_vars

\* bucket, line 103
BucketCheck ==
    /\ \E t \in BucketThreads :
         /\ b_threads[t].pc = "b_check"
         /\ Step(t, IF needs_fetch(b_threads[t].call.refresh, b_bucket)
                    THEN "b_fetch" ELSE "b_release",
                 [b_threads[t].call EXCEPT !.cached_at_check = b_bucket])
    /\ UNCHANGED <<b_lock, b_bucket, b_updated, b_clock, b_contacts, b_calls>>
    /\ UNCHANGED pipeline_vars
    /\ UNCHANGED resolver_vars
    /\ UNCHANGED listing_vars
    /\ UNCHANGED snapshot_vars
    /\ UNCHANGED adapter_vars
    /\ UNCHANGED pair_vars
    /\ UNCHANGED config_vars
    /\ UNCHANGED list_vars
    /\ UNCHANGED qrid_vars

\* bucket, lines 104-107: self._bucket = self.storage_client().get_bucket(bn)
BucketFetch ==
    /\ \E t \in BucketThreads, outcome \in FetchOutcomes :
         /\ b_threads[t].pc = "b_fetch"
         /\ b_bucket' = IF outcome = "ok" THEN b_contacts + 1 ELSE b_bucket
         /\ Step(t, after_get_bucket(outcome),
                 [b_threads[t].call EXCEPT !.contacted = TRUE,
                                           !.raised = IF outcome = "ok" THEN "None"
                                                      ELSE outcome])
    /\ b_contacts' = b_contacts + 1
    /\ UNCHANGED <<b_lock, b_updated, b_clock, b_calls>>
    /\ UNCHANGED pipeline_vars
    /\ UNCHANGED resolver_vars
    /\ UNCHANGED listing_vars
    /\ UNCHANGED snapshot_vars
    /\ UNCHANGED adapter_vars
    /\ UNCHANGED pair_vars
    /\ UNCHANGED config_vars
    /\ UNCHANGED list_vars
    /\ UNCHANGED qrid_vars

\* bucket, line 108: self._bucket_updated = datetime.datetime.now()
BucketStamp ==
    /\ \E t \in BucketThreads :
         /\ b_threads[t].pc = "b_stamp"
         /\ Step(t, "b_release", b_threads[t].call)
    /\ b_clock' = b_clock + 1
    /\ b_updated' = b_clock + 1
    /\ UNCHANGED <<b_lock, b_bucket, b_contacts, b_calls>>
    /\ UNCHANGED pipeline_vars
    /\ UNCHANGED resolver_vars
    /\ UNCHANGED listing_vars
    /\ UNCHANGED snapshot_vars
    /\ UNCHANGED adapter_vars
    /\ UNCHANGED pair_vars
    /\ UNCHANGED config_vars
    /\ UNCHANGED list_vars
    /\ UNCHANGED qrid_vars

\* bucket, lines 109-111: the error is logged and raised again
BucketExcept ==
    /\ \E t \in BucketThreads :
         /\ b_threads[t].pc = "b_except"
         /\ Step(t, "b_release", b_threads[t].call)
    /\ UNCHANGED <<b_lock, b_bucket, b_updated, b_clock, b_contacts, b_calls>>
    /\ UNCHANGED pipeline_vars
    /\ UNCHANGED resolver_vars
    /\ UNCHANGED listing_vars
    /\ UNCHANGED snapshot_vars
    /\ UNCHANGED adapter_vars
    /\ UNCHANGED pair_vars
    /\ UNCHANGED config_vars
    /\ UNCHANGED list_vars
    /\ UNCHANGED qrid_vars

\* bucket, lines 113-114: finally self._lock.release()
BucketRelease ==
    /\ \E t \in BucketThreads :
         /\ b_threads[t].pc = "b_release"
         /\ b_lock' = release(b_lock, t).lock
         /\ Step(t, "b_return",
                 [b_threads[t].call EXCEPT
                    !.raised = IF release(b_lock, t).raised /= "None"
                               THEN release(b_lock, t).raised ELSE @,
                    !.after = <<b_bucket, b_updated>>])
    /\ UNCHANGED <<b_bucket, b_updated, b_clock, b_contacts, b_calls>>
    /\ UNCHANGED pipeline_vars
    /\ UNCHANGED resolver_vars
    /\ UNCHANGED listing_vars
    /\ UNCHANGED snapshot_vars
    /\ UNCHANGED adapter_vars
    /\ UNCHANGED pair_vars
    /\ UNCHANGED config_vars
    /\ UNCHANGED list_vars
    /\ UNCHANGED qrid_vars

\* bucket, line 116, or the exception leaving the call
BucketReturn ==
    /\ \E t \in BucketThreads :
         /\ b_threads[t].pc = "b_return"
         /\ b_threads' = [b_threads EXCEPT ![t] =
               [pc |-> "idle", call |-> NoCall,
                last |-> [b_threads[t].call EXCEPT
                            !.value = IF b_threads[t].call.raised = "None"
                                      THEN b_bucket ELSE 0]]]
    /\ UNCHANGED <<b_lock, b_bucket, b_updated, b_clock, b_contacts, b_calls>>
    /\ UNCHANGED pipeline_vars
    /\ UNCHANGED resolver_vars
    /\ UNCHANGED listing_vars
    /\ UNCHANGED snapshot_vars
    /\ UNCHANGED adapter_vars
    /\ UNCHANGED pair_vars
    /\ UNCHANGED config_vars
    /\ UNCHANGED list_vars
    /\ UNCHANGED qrid_vars

\* a thread calls bucket_updated()
CallUpdated ==
    /\ b_calls < MaxBucketCalls
    /\ \E t \in BucketThreads :
         /\ b_threads[t].pc = "idle"
         /\ Step(t, "u_acquire", [NoCall EXCEPT !.op = "bucket_updated"])
    /\ b_calls' = b_calls + 1
    /\ UNCHANGED <<b_lock, b_bucket, b_updated, b_clock, b_contacts>>
    /\ UNCHANGED pipeline_vars
    /\ UNCHANGED resolver_vars
    /\ UNCHANGED listing_vars
    /\ UNCHANGED snapshot_vars
    /\ UNCHANGED adapter_vars
    /\ UNCHANGED pair_vars
    /\ UNCHANGED config_vars
    /\ UNCHANGED list_vars
    /\ UNCHANGED qrid_vars

\* bucket_updated, line 125: self._lock.acquire(False) does not wait, and
\* what it returns is dropped
UpdatedAcquire ==
    /\ \E t \in BucketThreads :
         /\ b_threads[t].pc = "u_acquire"
         /\ b_lock' = try_acquire(b_lock, t).lock
         /\ Step(t, "u_read", [b_threads[t].call EXCEPT
                                  !.got = try_acquire(b_lock, t).got])
    /\ UNCHANGED <<b_bucket, b_updated, b_clock, b_contacts, b_calls>>
    /\ UNCHANGED pipeline_vars
    /\ UNCHANGED resolver_vars
    /\ UNCHANGED listing_vars
    /\ UNCHANGED snapshot_vars
    /\ UNCHANGED adapter_vars
    /\ UNCHANGED pair_vars
    /\ UNCHANGED config_vars
    /\ UNCHANGED list_vars
    /\ UNCHANGED qrid_vars

\* bucket_updated, line 126: up = self._bucket_updated
UpdatedRead ==
    /\ \E t \in BucketThreads :
         /\ b_threads[t].pc = "u_read"
         /\ Step(t, "u_release",
                 [b_threads[t].call EXCEPT !.value = b_updated,
                                           !.read_locked = (b_lock.owner = t),
                                           !.before = <<b_bucket, b_updated>>])
    /\ UNCHANGED <<b_lock, b_bucket, b_updated, b_clock, b_contacts, b_calls>>
    /\ UNCHANGED pipeline_vars
    /\ UNCHANGED resolver_vars
    /\ UNCHANGED listing_vars
    /\ UNCHANGED snapshot_vars
    /\ UNCHANGED adapter_vars
    /\ UNCHANGED pair_vars
    /\ UNCHANGED config_vars
    /\ UNCHANGED list_vars
    /\ UNCHANGED qrid_vars

\* bucket_updated, line 127: self._lock.release()
UpdatedRelease ==
    /\ \E t \in BucketThreads :
         /\ b_threads[t].pc = "u_release"
         /\ b_lock' = release(b_lock, t).lock
         /\ Step(t, "u_return",
                 [b_threads[t].call EXCEPT !.raised = release(b_lock, t).raised])
    /\ UNCHANGED <<b_bucket, b_updated, b_clock, b_contacts, b_calls>>
    /\ UNCHANGED pipeline_vars
    /\ UNCHANGED resolver_vars
    /\ UNCHANGED listing_vars
    /\ UNCHANGED snapshot_vars
    /\ UNCHANGED adapter_vars
    /\ UNCHANGED pair_vars
    /\ UNCHANGED config_vars
    /\ UNCHANGED list_vars
    /\ UNCHANGED qrid_vars

\* bucket_updated, line 128, or the RuntimeError leaving the call
UpdatedReturn ==
    /\ \E t \in BucketThreads :
         /\ b_threads[t].pc = "u_return"
         /\ b_threads' = [b_threads EXCEPT ![t] =
               [pc |-> "idle", call |-> NoCall, last |-> b_threads[t].call]]
    /\ UNCHANGED <<b_lock, b_bucket, b_updated, b_clock, b_contacts, b_calls>>
    /\ UNCHANGED pipeline_vars
    /\ UNCHANGED resolver_vars
    /\ UNCHANGED listing_vars
    /\ UNCHANGED snapshot_vars
    /\ UNCHANGED adapter_vars
    /\ UNCHANGED pair_vars
    /\ UNCHANGED config_vars
    /\ UNCHANGED list_vars
    /\ UNCHANGED qrid_vars

InitBucket ==
    /\ BucketInit
    /\ PipelineIdle
    /\ ResolverIdle
    /\ AdapterIdle
    /\ PairIdle
    /\ ConfigIdle
    /\ ListIdle
    /\ QridIdle
    /\ SnapshotIdle
    /\ ListingIdle

NextBucket ==
    \/ CallBucket
    \/ BucketAcquire
    \/ BucketCheck
    \/ BucketFetch
    \/ BucketStamp
    \/ BucketExcept
    \/ BucketRelease
    \/ BucketReturn
    \/ CallUpdated
    \/ UpdatedAcquire
    \/ UpdatedRead
    \/ UpdatedRelease
    \/ UpdatedReturn

SpecBucket == InitBucket /\ [][NextBucket]_vars

\* the calls of the threads: the one each is in, and the last each finished
BucketCallRecords(op) ==
    {c \in {b_threads[t].call : t \in BucketThreads}
           \cup {b_threads[t].last : t \in BucketThreads} : c.op = op}

\* C34: bucket() releases the lock it acquired before it returns or raises,
\* whether get_bucket returns, raises NotFound or raises another error: a
\* thread that is done with bucket() does not own the lock, and the lock is
\* free whenever no call is under way.
C34_LockReleased ==
    /\ \A t \in BucketThreads :
          b_threads[t].pc \in {"idle", "b_return"} => b_lock.owner /= t
    /\ (\A t \in BucketThreads : b_threads[t].pc = "idle") => b_lock = FreeLock
    /\ \A t \in BucketThreads :
          b_threads[t].last.op = "bucket" =>
             b_threads[t].last.raised \in {"None", "NotFound", "OtherError"}

\* both threads are done with a bucket() call that raised, one NotFound and
\* one another error, and the lock is free
C34_Witness ==
    /\ \A t \in BucketThreads : b_threads[t].pc = "idle"
    /\ b_threads["t1"].last.op = "bucket"
    /\ b_threads["t1"].last.raised = "NotFound"
    /\ b_threads["t2"].last.op = "bucket"
    /\ b_threads["t2"].last.raised = "OtherError"
    /\ b_lock = FreeLock

CacheStamped == b_updated /= 0 <=> b_bucket /= 0

\* get_bucket is called only on refresh or with no bucket cached, and a
\* bucket() call that raised left the cached bucket and timestamp as they
\* were when it took the lock
FetchedWhenNeeded ==
    /\ \A c \in BucketCallRecords("bucket") :
          c.contacted => (c.refresh \/ c.cached_at_check = 0)
    /\ \A t \in BucketThreads :
          (b_threads[t].last.op = "bucket" /\ b_threads[t].last.raised /= "None")
             => b_threads[t].last.before = b_threads[t].last.after

-----------------------------------------------------------------------------
(* create_id_match_tables (validation/participants/snapshot_validation_dataset.py):
   one table per HPO site, filled from the site's latest partition in drc_ops.
   The rows of the partitions query and the list of sites are inputs. *)

\* the longest result of the partitions query
MaxFrameRows == 3

\* the sites get_hpo_info() can list
HpoIds == {"fake", "nyc"}

\* partition ids; a row of INFORMATION_SCHEMA.PARTITIONS can also carry a
\* null partition_id
PartitionIds == {"20220101", "20220215"}

NA == "<NA>"

IDENTITY_MATCH == "identity_match"

\* lines 33 and 55: f'{IDENTITY_MATCH}_{hpo_id}'
source_table(hpo_id) == IDENTITY_MATCH \o "_" \o hpo_id

\* line 56: get_table_id(hpo_id, IDENTITY_MATCH), "{hpo_id}_identity_match"
get_table_id(hpo_id, table_name) == hpo_id \o "_" \o table_name

PartitionRow == [table_name : {source_table(h) : h \in HpoIds},
                 partition_id : PartitionIds \cup {NA}]

\* get_partition_date_df: the rows of df whose table_name is the site's table
get_partition_date_df(df, hpo_id) ==
    SelectSeq(df, LAMBDA row : row.table_name = source_table(hpo_id))

\* hpo_partition_df['partition_id']
partition_id_column(df) == [i \in 1..Len(df) |-> df[i].partition_id]

\* a count that counts every value of the column, null or not
count_rows(column) == Len(column)

\* Series.count(): the number of values of the column that are not null
count(column) == Len(SelectSeq(column, LAMBDA v : v # NA))

\* Series.iloc[0]
iloc0(column) == column[1]

\* a call made on the client, or a site skipped
SnapEvent(op, what, hpo_id, date, ok) ==
    [op |-> op, what |-> what, site |-> hpo_id, date |-> date, ok |-> ok]

\* the lists get_hpo_info() can return: each site at most once
HpoInfos ==
    {<<>>} \cup {<<h>> : h \in HpoIds}
           \cup {<<h1, h2>> : <<h1, h2>> \in {p \in HpoIds \X HpoIds : p[1] # p[2]}}

\* create_id_match_tables(client, dataset_id) is called
SnapshotInit ==
    /\ s_pc = "call"
    /\ \E n \in 0..MaxFrameRows : partitions_df \in [1..n -> PartitionRow]
    /\ hpo_info \in HpoInfos
    /\ s_index = 0
    /\ partition_date = PyNone
    /\ s_exc = PyNone
    /\ s_trace = <<>>

\* lines 45-47: the partitions query is submitted
SnapQueryPartitions ==
    /\ s_pc = "call"
    /\ \E ok \in BOOLEAN :
         /\ s_trace' = Append(s_trace,
                SnapEvent("query", "PARTITIONS_QUERY", PyNone, PyNone, ok))
         /\ s_pc' = IF ok THEN "partitions" ELSE "raised"
         /\ s_exc' = IF ok THEN PyNone ELSE "query"
    /\ UNCHANGED <<partitions_df, hpo_info, s_index, partition_date>>
    /\ UNCHANGED pipeline_vars
    /\ UNCHANGED resolver_vars
    /\ UNCHANGED adapter_vars
    /\ UNCHANGED pair_vars
    /\ UNCHANGED config_vars
    /\ UNCHANGED list_vars
    /\ UNCHANGED qrid_vars
    /\ UNCHANGED bucket_vars
    /\ UNCHANGED listing_vars

\* lines 48-49: job.result().to_dataframe()
SnapPartitionsResult ==
    /\ s_pc = "partitions"
    /\ \E ok \in BOOLEAN :
         /\ s_trace' = Append(s_trace,
                SnapEvent("result", "PARTITIONS_QUERY", PyNone, PyNone, ok))
         /\ s_pc' = IF ok THEN "loop" ELSE "raised"
         /\ s_exc' = IF ok THEN PyNone ELSE "result"
    /\ s_index' = 1
    /\ UNCHANGED <<partitions_df, hpo_info, partition_date>>
    /\ UNCHANGED pipeline_vars
    /\ UNCHANGED resolver_vars
    /\ UNCHANGED adapter_vars
    /\ UNCHANGED pair_vars
    /\ UNCHANGED config_vars
    /\ UNCHANGED list_vars
    /\ UNCHANGED qrid_vars
    /\ UNCHANGED bucket_vars
    /\ UNCHANGED listing_vars

\* lines 51-64: the next site does not have a count of 1: skipped
SnapSkip ==
    /\ s_pc = "loop"
    /\ s_index <= Len(hpo_info)
    /\ LET hpo_id == hpo_info[s_index]
           hpo_partition_df == get_partition_date_df(partitions_df, hpo_id)
       IN  /\ count(partition_id_column(hpo_partition_df)) # 1
           /\ s_trace' = Append(s_trace,
                  SnapEvent("skip", PyNone, hpo_id, PyNone, TRUE))
    /\ s_index' = s_index + 1
    /\ UNCHANGED <<s_pc, partitions_df, hpo_info, partition_date, s_exc>>
    /\ UNCHANGED pipeline_vars
    /\ UNCHANGED resolver_vars
    /\ UNCHANGED adapter_vars
    /\ UNCHANGED pair_vars
    /\ UNCHANGED config_vars
    /\ UNCHANGED list_vars
    /\ UNCHANGED qrid_vars
    /\ UNCHANGED bucket_vars
    /\ UNCHANGED listing_vars

\* lines 51-66: the next site has a count of 1: its partition_date is taken
SnapSelect ==
    /\ s_pc = "loop"
    /\ s_index <= Len(hpo_info)
    /\ LET hpo_id == hpo_info[s_index]
           hpo_partition_df == get_partition_date_df(partitions_df, hpo_id)
       IN  /\ count(partition_id_column(hpo_partition_df)) = 1
           /\ partition_date' = iloc0(partition_id_column(hpo_partition_df))
    /\ s_pc' = "create"
    /\ UNCHANGED <<partitions_df, hpo_info, s_index, s_exc, s_trace>>
    /\ UNCHANGED pipeline_vars
    /\ UNCHANGED resolver_vars
    /\ UNCHANGED adapter_vars
    /\ UNCHANGED pair_vars
    /\ UNCHANGED config_vars
    /\ UNCHANGED list_vars
    /\ UNCHANGED qrid_vars
    /\ UNCHANGED bucket_vars
    /\ UNCHANGED listing_vars

\* lines 68-71: client.create_table(Table(fq_dest_table, schema=schema))
SnapCreateTable ==
    /\ s_pc = "create"
    /\ \E ok \in BOOLEAN :
         /\ s_trace' = Append(s_trace,
                SnapEvent("create_table",
                          get_table_id(hpo_info[s_index], IDENTITY_MATCH),
                          hpo_info[s_index], PyNone, ok))
         /\ s_pc' = IF ok THEN "query" ELSE "raised"
         /\ s_exc' = IF ok THEN PyNone ELSE "create_table"
    /\ UNCHANGED <<partitions_df, hpo_info, s_index, partition_date>>
    /\ UNCHANGED pipeline_vars
    /\ UNCHANGED resolver_vars
    /\ UNCHANGED adapter_vars
    /\ UNCHANGED pair_vars
    /\ UNCHANGED config_vars
    /\ UNCHANGED list_vars
    /\ UNCHANGED qrid_vars
    /\ UNCHANGED bucket_vars
    /\ UNCHANGED listing_vars

\* lines 73-77: the snapshot query of the site is submitted
SnapQuery ==
    /\ s_pc = "query"
    /\ \E ok \in BOOLEAN :
         /\ s_trace' = Append(s_trace,
                SnapEvent("query", "SNAPSHOT_TABLE_QUERY", hpo_info[s_index],
                          partition_date, ok))
         /\ s_pc' = IF ok THEN "wait" ELSE "raised"
         /\ s_exc' = IF ok THEN PyNone ELSE "query"
    /\ UNCHANGED <<partitions_df, hpo_info, s_index, partition_date>>
    /\ UNCHANGED pipeline_vars
    /\ UNCHANGED resolver_vars
    /\ UNCHANGED adapter_vars
    /\ UNCHANGED pair_vars
    /\ UNCHANGED config_vars
    /\ UNCHANGED list_vars
    /\ UNCHANGED qrid_vars
    /\ UNCHANGED bucket_vars
    /\ UNCHANGED listing_vars

\* lines 78-81: snapshot_table_job.result(), then on to the next site
SnapWait ==
    /\ s_pc = "wait"
    /\ \E ok \in BOOLEAN :
         /\ s_trace' = Append(s_trace,
                SnapEvent("result", "SNAPSHOT_TABLE_QUERY", hpo_info[s_index],
                          PyNone, ok))
         /\ s_pc' = IF ok THEN "loop" ELSE "raised"
         /\ s_exc' = IF ok THEN PyNone ELSE "result"
         /\ s_index' = IF ok THEN s_index + 1 ELSE s_index
    /\ UNCHANGED <<partitions_df, hpo_info, partition_date>>
    /\ UNCHANGED pipeline_vars
    /\ UNCHANGED resolver_vars
    /\ UNCHANGED adapter_vars
    /\ UNCHANGED pair_vars
    /\ UNCHANGED config_vars
    /\ UNCHANGED list_vars
    /\ UNCHANGED qrid_vars
    /\ UNCHANGED bucket_vars
    /\ UNCHANGED listing_vars

\* line 51: no site is left
SnapReturn ==
    /\ s_pc = "loop"
    /\ s_index > Len(hpo_info)
    /\ s_pc' = "returned"
    /\ UNCHANGED <<partitions_df, hpo_info, s_index, partition_date, s_exc, s_trace>>
    /\ UNCHANGED pipeline_vars
    /\ UNCHANGED resolver_vars
    /\ UNCHANGED adapter_vars
    /\ UNCHANGED pair_vars
    /\ UNCHANGED config_vars
    /\ UNCHANGED list_vars
    /\ UNCHANGED qrid_vars
    /\ UNCHANGED bucket_vars
    /\ UNCHANGED listing_vars

InitSnapshot ==
    /\ SnapshotInit
    /\ PipelineIdle
    /\ ResolverIdle
    /\ AdapterIdle
    /\ PairIdle
    /\ ConfigIdle
    /\ ListIdle
    /\ QridIdle
    /\ BucketIdle
    /\ ListingIdle

NextSnapshot ==
    \/ SnapQueryPartitions
    \/ SnapPartitionsResult
    \/ SnapSkip
    \/ SnapSelect
    \/ SnapCreateTable
    \/ SnapQuery
    \/ SnapWait
    \/ SnapReturn

SpecSnapshot == InitSnapshot /\ [][NextSnapshot]_vars

\* the rows of the partitions result that name a partition of the site's table
PartitionRows(hpo_id) ==
    {i \in 1..Len(partitions_df) :
        /\ partitions_df[i].table_name = source_table(hpo_id)
        /\ partitions_df[i].partition_id # NA}

\* the positions of the trace where the client was asked to work for a site
SiteWork(hpo_id) ==
    {k \in 1..Len(s_trace) :
        /\ s_trace[k].site = hpo_id
        /\ s_trace[k].op \in {"create_table", "query", "result"}}

IsSnapshotQuery(e) == e.op = "query" /\ e.what = "SNAPSHOT_TABLE_QUERY"

-----------------------------------------------------------------------------
(* list_bucket (gcs_utils.py): the objects of a bucket, page by page.  The
   listing the service holds is an input: finitely many pages, each with its
   items, or with no 'items' key at all, and a nextPageToken on every page
   but the last. *)

\* the most pages of a listing, and the most items of a page
MaxPages == 3
MaxItems == 2

\* a page of the listing without an 'items' key
NoItems == 0 - 1

\* page k of a listing of n pages, with its items (each object of a bucket
\* is listed once) and the page its nextPageToken leads to, 0 for none
Page(k, size, n) ==
    [has_items |-> size # NoItems,
     items |-> [i \in 1..(IF size = NoItems THEN 0 ELSE size) |-> <<k, i>>],
     nextPageToken |-> IF k < n THEN k + 1 ELSE 0]

\* resp.get('items', [])
resp_get_items(response) ==
    IF response.has_items THEN response.items ELSE <<>>

\* a list_next that never has a further request
list_next_none(request, response) == 0

\* service.objects().list_next(req, resp): the request for the page the
\* response's nextPageToken names, None when the response has none
list_next(request, response) ==
    IF response.nextPageToken = 0 THEN 0 ELSE response.nextPageToken

\* list_bucket(bucket) is called
ListingInit ==
    /\ g_pc = "call"
    /\ \E n \in 1..MaxPages :
         \E sizes \in [1..n -> {NoItems} \cup 0..MaxItems] :
            listing = [k \in 1..n |-> Page(k, sizes[k], n)]
    /\ req = 0
    /\ resp = <<>>
    /\ all_objects = <<>>
    /\ g_result = <<>>
    /\ g_trace = <<>>

\* lines 192-194: the request for the first page, and the empty list
ListBucketStart ==
    /\ g_pc = "call"
    /\ req' = 1
    /\ all_objects' = <<>>
    /\ g_trace' = Append(g_trace, [op |-> "list", page |-> 1])
    /\ g_pc' = "while"
    /\ UNCHANGED <<listing, resp, g_result>>
    /\ UNCHANGED pipeline_vars
    /\ UNCHANGED resolver_vars
    /\ UNCHANGED adapter_vars
    /\ UNCHANGED pair_vars
    /\ UNCHANGED config_vars
    /\ UNCHANGED list_vars
    /\ UNCHANGED qrid_vars
    /\ UNCHANGED bucket_vars
    /\ UNCHANGED snapshot_vars

\* lines 195-196: there is a request: it is executed, and may raise
ListBucketExecute ==
    /\ g_pc = "while"
    /\ req # 0
    /\ g_trace' = Append(g_trace, [op |-> "execute", page |-> req])
    /\ \/ /\ resp' = listing[req]
          /\ g_pc' = "extend"
       \/ /\ resp' = resp
          /\ g_pc' = "raised"
    /\ UNCHANGED <<listing, req, all_objects, g_result>>
    /\ UNCHANGED pipeline_vars
    /\ UNCHANGED resolver_vars
    /\ UNCHANGED adapter_vars
    /\ UNCHANGED pair_vars
    /\ UNCHANGED config_vars
    /\ UNCHANGED list_vars
    /\ UNCHANGED qrid_vars
    /\ UNCHANGED bucket_vars
    /\ UNCHANGED snapshot_vars

\* line 197: all_objects.extend(resp.get('items', []))
ListBucketExtend ==
    /\ g_pc = "extend"
    /\ all_objects' = all_objects \o resp_get_items(resp)
    /\ g_pc' = "next"
    /\ UNCHANGED <<listing, req, resp, g_result, g_trace>>
    /\ UNCHANGED pipeline_vars
    /\ UNCHANGED resolver_vars
    /\ UNCHANGED adapter_vars
    /\ UNCHANGED pair_vars
    /\ UNCHANGED config_vars
    /\ UNCHANGED list_vars
    /\ UNCHANGED qrid_vars
    /\ UNCHANGED bucket_vars
    /\ UNCHANGED snapshot_vars

\* line 198: req = service.objects().list_next(req, resp)
ListBucketNext ==
    /\ g_pc = "next"
    /\ req' = list_next(req, resp)
    /\ g_trace' = Append(g_trace, [op |-> "list_next", page |-> req])
    /\ g_pc' = "while"
    /\ UNCHANGED <<listing, resp, all_objects, g_result>>
    /\ UNCHANGED pipeline_vars
    /\ UNCHANGED resolver_vars
    /\ UNCHANGED adapter_vars
    /\ UNCHANGED pair_vars
    /\ UNCHANGED config_vars
    /\ UNCHANGED list_vars
    /\ UNCHANGED qrid_vars
    /\ UNCHANGED bucket_vars
    /\ UNCHANGED snapshot_vars

\* lines 195 and 199: no request is left: all_objects is returned
ListBucketReturn ==
    /\ g_pc = "while"
    /\ req = 0
    /\ g_result' = all_objects
    /\ g_pc' = "returned"
    /\ UNCHANGED <<listing, req, resp, all_objects, g_trace>>
    /\ UNCHANGED pipeline_vars
    /\ UNCHANGED resolver_vars
    /\ UNCHANGED adapter_vars
    /\ UNCHANGED pair_vars
    /\ UNCHANGED config_vars
    /\ UNCHANGED list_vars
    /\ UNCHANGED qrid_vars
    /\ UNCHANGED bucket_vars
    /\ UNCHANGED snapshot_vars

InitListing ==
    /\ ListingInit
    /\ PipelineIdle
    /\ ResolverIdle
    /\ AdapterIdle
    /\ PairIdle
    /\ ConfigIdle
    /\ ListIdle
    /\ QridIdle
    /\ BucketIdle
    /\ SnapshotIdle

NextListing ==
    \/ ListBucketStart
    \/ ListBucketExecute
    \/ ListBucketExtend
    \/ ListBucketNext
    \/ ListBucketReturn

SpecListing == InitListing /\ [][NextListing]_vars

\* list_bucket runs on one thread, which takes its next step whenever it has one
SpecListingLive == InitListing /\ [][NextListing]_vars /\ WF_vars(NextListing)

\* the items of the first n pages of the listing, page after page
RECURSIVE ItemsUpTo(_)
ItemsUpTo(n) ==
    IF n = 0 THEN <<>>
    ELSE ItemsUpTo(n - 1) \o resp_get_items(listing[n])

\* the pages executed so far, in order
Executed == SelectSeq(g_trace, LAMBDA e : e.op = "execute")

\* the pages executed are pages 1, 2, ... in order, each once, and the next
\* page is asked for right after each response
PageAfterPage ==
    /\ Len(Executed) <= Len(listing)
    /\ \A k \in 1..Len(Executed) : Executed[k].page = k
    /\ \A k \in 1..Len(g_trace) :
         (g_trace[k].op = "execute" /\ k < Len(g_trace)) =>
            /\ g_trace[k + 1].op = "list_next"
            /\ g_trace[k + 1].page = g_trace[k].page

\* what list_bucket returns is the items of all the pages, in page order and
\* in item order, and it returns right after the page without a next page
AllPagesReturned ==
    g_pc = "returned" =>
        /\ g_result = ItemsUpTo(Len(listing))
        /\ Len(Executed) = Len(listing)
        /\ resp.nextPageToken = 0
        /\ g_trace[Len(g_trace)].op = "list_next"

\* all_objects holds the items of the pages whose response has been added
ItemsSoFar ==
    g_pc \in {"while", "next"} =>
        all_objects = ItemsUpTo(Len(Executed))

\* C38: list_bucket returns the items of every page of the listing, in page
\* order and in item order within a page, asks for the next page after each
\* response and stops exactly when there is none; on a listing of finitely
\* many pages it terminates, by returning or by raising what execute raised.
C38_ListBucket ==
    /\ <>(g_pc \in {"returned", "raised"})
    /\ [](PageAfterPage /\ AllPagesReturned /\ ItemsSoFar)

\* list_bucket has returned the items of three pages, one of them without
\* an 'items' key and one with two items
C38_Witness ==
    /\ g_pc = "returned"
    /\ Len(listing) = 3
    /\ \E k \in 1..3 : ~listing[k].has_items
    /\ \E k \in 1..3 : Len(listing[k].items) = 2
    /\ g_result = ItemsUpTo(3)
    /\ Len(g_result) >= 3

============================================================================
